---- MODULE Spec2Model ----
(***************************************************************************)
(* Model of the CrossPoint calendar worker (worker/src/index.ts): the      *)
(* bitmap-font rasterizer, the shape and icon primitives, the page         *)
(* composer renderDisplay, the bitmap encoder createBMP and the request    *)
(* handler.                                                                *)
(*                                                                         *)
(* Strings are sequences of one-character strings.  The pixel buffer is    *)
(* kept sparsely, as the stores made into it: every index not stored to    *)
(* still holds PAPER_WHITE.                                                *)
(* A write of a primitive is its target <<px, py>>; the byte it addresses  *)
(* is py*width + px, and a typed array drops a store whose index is        *)
(* outside [0, length).                                                    *)
(***************************************************************************)
EXTENDS Integers, Sequences, FiniteSets, TLC

\* ------------------------------------------------------------------------
\* Colour constants
\* ------------------------------------------------------------------------
INK_BLACK == 0
DARK_GRAY == 64
LIGHT_GRAY == 176
PAPER_WHITE == 255

\* ------------------------------------------------------------------------
\* Font table: character -> 12 eight-bit rows.  "deg" stands for the degree
\* sign.  The table holds no "?".
\* ------------------------------------------------------------------------
FONT_DATA ==
     "0" :> <<60, 102, 110, 118, 102, 102, 60, 0, 0, 0, 0, 0>> @@
     "1" :> <<24, 56, 24, 24, 24, 24, 126, 0, 0, 0, 0, 0>> @@
     "2" :> <<60, 102, 6, 28, 48, 96, 126, 0, 0, 0, 0, 0>> @@
     "3" :> <<60, 102, 6, 28, 6, 102, 60, 0, 0, 0, 0, 0>> @@
     "4" :> <<12, 28, 60, 108, 126, 12, 12, 0, 0, 0, 0, 0>> @@
     "5" :> <<126, 96, 124, 6, 6, 102, 60, 0, 0, 0, 0, 0>> @@
     "6" :> <<28, 48, 96, 124, 102, 102, 60, 0, 0, 0, 0, 0>> @@
     "7" :> <<126, 6, 12, 24, 48, 48, 48, 0, 0, 0, 0, 0>> @@
     "8" :> <<60, 102, 102, 60, 102, 102, 60, 0, 0, 0, 0, 0>> @@
     "9" :> <<60, 102, 102, 62, 6, 12, 56, 0, 0, 0, 0, 0>> @@
     "A" :> <<24, 60, 102, 102, 126, 102, 102, 0, 0, 0, 0, 0>> @@
     "B" :> <<124, 102, 102, 124, 102, 102, 124, 0, 0, 0, 0, 0>> @@
     "C" :> <<60, 102, 96, 96, 96, 102, 60, 0, 0, 0, 0, 0>> @@
     "D" :> <<120, 108, 102, 102, 102, 108, 120, 0, 0, 0, 0, 0>> @@
     "E" :> <<126, 96, 96, 124, 96, 96, 126, 0, 0, 0, 0, 0>> @@
     "F" :> <<126, 96, 96, 124, 96, 96, 96, 0, 0, 0, 0, 0>> @@
     "G" :> <<60, 102, 96, 110, 102, 102, 60, 0, 0, 0, 0, 0>> @@
     "H" :> <<102, 102, 102, 126, 102, 102, 102, 0, 0, 0, 0, 0>> @@
     "I" :> <<60, 24, 24, 24, 24, 24, 60, 0, 0, 0, 0, 0>> @@
     "J" :> <<6, 6, 6, 6, 6, 102, 60, 0, 0, 0, 0, 0>> @@
     "K" :> <<102, 108, 120, 112, 120, 108, 102, 0, 0, 0, 0, 0>> @@
     "L" :> <<96, 96, 96, 96, 96, 96, 126, 0, 0, 0, 0, 0>> @@
     "M" :> <<99, 119, 127, 107, 99, 99, 99, 0, 0, 0, 0, 0>> @@
     "N" :> <<102, 118, 126, 126, 110, 102, 102, 0, 0, 0, 0, 0>> @@
     "O" :> <<60, 102, 102, 102, 102, 102, 60, 0, 0, 0, 0, 0>> @@
     "P" :> <<124, 102, 102, 124, 96, 96, 96, 0, 0, 0, 0, 0>> @@
     "Q" :> <<60, 102, 102, 102, 106, 108, 54, 0, 0, 0, 0, 0>> @@
     "R" :> <<124, 102, 102, 124, 108, 102, 102, 0, 0, 0, 0, 0>> @@
     "S" :> <<60, 102, 96, 60, 6, 102, 60, 0, 0, 0, 0, 0>> @@
     "T" :> <<126, 24, 24, 24, 24, 24, 24, 0, 0, 0, 0, 0>> @@
     "U" :> <<102, 102, 102, 102, 102, 102, 60, 0, 0, 0, 0, 0>> @@
     "V" :> <<102, 102, 102, 102, 102, 60, 24, 0, 0, 0, 0, 0>> @@
     "W" :> <<99, 99, 99, 107, 127, 119, 99, 0, 0, 0, 0, 0>> @@
     "X" :> <<102, 102, 60, 24, 60, 102, 102, 0, 0, 0, 0, 0>> @@
     "Y" :> <<102, 102, 102, 60, 24, 24, 24, 0, 0, 0, 0, 0>> @@
     "Z" :> <<126, 6, 12, 24, 48, 96, 126, 0, 0, 0, 0, 0>> @@
     "a" :> <<0, 0, 60, 6, 62, 102, 62, 0, 0, 0, 0, 0>> @@
     "b" :> <<96, 96, 124, 102, 102, 102, 124, 0, 0, 0, 0, 0>> @@
     "c" :> <<0, 0, 60, 102, 96, 102, 60, 0, 0, 0, 0, 0>> @@
     "d" :> <<6, 6, 62, 102, 102, 102, 62, 0, 0, 0, 0, 0>> @@
     "e" :> <<0, 0, 60, 102, 126, 96, 60, 0, 0, 0, 0, 0>> @@
     "f" :> <<28, 54, 48, 124, 48, 48, 48, 0, 0, 0, 0, 0>> @@
     "g" :> <<0, 0, 62, 102, 102, 62, 6, 60, 0, 0, 0, 0>> @@
     "h" :> <<96, 96, 124, 102, 102, 102, 102, 0, 0, 0, 0, 0>> @@
     "i" :> <<24, 0, 56, 24, 24, 24, 60, 0, 0, 0, 0, 0>> @@
     "j" :> <<12, 0, 28, 12, 12, 12, 108, 56, 0, 0, 0, 0>> @@
     "k" :> <<96, 96, 102, 108, 120, 108, 102, 0, 0, 0, 0, 0>> @@
     "l" :> <<56, 24, 24, 24, 24, 24, 60, 0, 0, 0, 0, 0>> @@
     "m" :> <<0, 0, 118, 127, 107, 107, 99, 0, 0, 0, 0, 0>> @@
     "n" :> <<0, 0, 124, 102, 102, 102, 102, 0, 0, 0, 0, 0>> @@
     "o" :> <<0, 0, 60, 102, 102, 102, 60, 0, 0, 0, 0, 0>> @@
     "p" :> <<0, 0, 124, 102, 102, 124, 96, 96, 0, 0, 0, 0>> @@
     "q" :> <<0, 0, 62, 102, 102, 62, 6, 6, 0, 0, 0, 0>> @@
     "r" :> <<0, 0, 110, 118, 96, 96, 96, 0, 0, 0, 0, 0>> @@
     "s" :> <<0, 0, 62, 96, 60, 6, 124, 0, 0, 0, 0, 0>> @@
     "t" :> <<48, 48, 124, 48, 48, 54, 28, 0, 0, 0, 0, 0>> @@
     "u" :> <<0, 0, 102, 102, 102, 102, 62, 0, 0, 0, 0, 0>> @@
     "v" :> <<0, 0, 102, 102, 102, 60, 24, 0, 0, 0, 0, 0>> @@
     "w" :> <<0, 0, 99, 107, 107, 127, 54, 0, 0, 0, 0, 0>> @@
     "x" :> <<0, 0, 102, 60, 24, 60, 102, 0, 0, 0, 0, 0>> @@
     "y" :> <<0, 0, 102, 102, 102, 62, 6, 60, 0, 0, 0, 0>> @@
     "z" :> <<0, 0, 126, 12, 24, 48, 126, 0, 0, 0, 0, 0>> @@
     " " :> <<0, 0, 0, 0, 0, 0, 0, 0, 0, 0, 0, 0>> @@
     ":" :> <<0, 24, 24, 0, 24, 24, 0, 0, 0, 0, 0, 0>> @@
     "." :> <<0, 0, 0, 0, 0, 24, 24, 0, 0, 0, 0, 0>> @@
     "," :> <<0, 0, 0, 0, 0, 24, 24, 48, 0, 0, 0, 0>> @@
     "-" :> <<0, 0, 0, 126, 0, 0, 0, 0, 0, 0, 0, 0>> @@
     "/" :> <<6, 12, 24, 48, 96, 64, 0, 0, 0, 0, 0, 0>> @@
     "deg" :> <<28, 54, 54, 28, 0, 0, 0, 0, 0, 0, 0, 0>> @@
     "'" :> <<24, 24, 48, 0, 0, 0, 0, 0, 0, 0, 0, 0>> @@
     "(" :> <<12, 24, 48, 48, 48, 24, 12, 0, 0, 0, 0, 0>> @@
     ")" :> <<48, 24, 12, 12, 12, 24, 48, 0, 0, 0, 0, 0>> @@
     "+" :> <<0, 24, 24, 126, 24, 24, 0, 0, 0, 0, 0, 0>>

\* rowData & (0x80 >> col)
BitSet(rowData, col) == (rowData \div (2 ^ (7 - col))) % 2 = 1

\* A row loop that stops one row early.
GlyphCellsShort(char) ==
  { rc \in (0..5) \X (0..7) : BitSet(FONT_DATA[char][rc[1] + 1], rc[2]) }

\* The <<row, col>> cells drawChar visits and finds set: rows 0..7 only.
GlyphCells(char) ==
  { rc \in (0..7) \X (0..7) : BitSet(FONT_DATA[char][rc[1] + 1], rc[2]) }

\* drawChar: the targets <<px, py>> it stores to.
drawChar(width, x, y, char, scale) ==
  IF char \notin DOMAIN FONT_DATA THEN {}
  ELSE { t \in { <<x + rc[2] * scale + sx, y + rc[1] * scale + sy>> :
                   rc \in GlyphCells(char), sx \in 0..(scale - 1), sy \in 0..(scale - 1) } :
           t[1] >= 0 /\ t[1] < width /\ t[2] >= 0 }

\* drawText: one drawChar per character, the pen advancing 8*scale.
RECURSIVE drawTextFrom(_, _, _, _, _, _)
drawTextFrom(width, cx, y, text, scale, i) ==
  IF i > Len(text) THEN {}
  ELSE drawChar(width, cx, y, text[i], scale)
         \cup drawTextFrom(width, cx + 8 * scale, y, text, scale, i + 1)

drawText(width, x, y, text, scale) == drawTextFrom(width, x, y, text, scale, 1)

getTextWidth(text, scale) == Len(text) * 8 * scale

\* Math.floor((width - textWidth) / 2)
drawCenteredText(width, y, text, scale) ==
  drawText(width, (width - getTextWidth(text, scale)) \div 2, y, text, scale)

drawRightAlignedText(width, y, text, scale, margin) ==
  drawText(width, width - margin - getTextWidth(text, scale), y, text, scale)

Min(a, b) == IF a < b THEN a ELSE b

fillRect(width, height, x, y, w, h) ==
  { t \in (x..(Min(x + w, width) - 1)) \X (y..(Min(y + h, height) - 1)) :
      t[1] >= 0 /\ t[2] >= 0 }

\* drawHLine hands fillRect the height 9999.
HLINE_HEIGHT == 9999

drawHLine(width, y, x1, x2, thickness) ==
  fillRect(width, HLINE_HEIGHT, x1, y, x2 - x1, thickness)

\* drawDashedHLine: dashes of dashLen and gaps of gapLen from x1, starting
\* with a dash; no store is guarded.
RECURSIVE DashedFrom(_, _, _, _, _, _)
DashedFrom(x, x2, y, drawing, dashLen, gapLen) ==
  IF x >= x2 THEN {}
  ELSE IF drawing
       THEN { <<px, y>> : px \in x..(Min(x + dashLen, x2) - 1) }
              \cup DashedFrom(x + dashLen, x2, y, FALSE, dashLen, gapLen)
       ELSE DashedFrom(x + gapLen, x2, y, TRUE, dashLen, gapLen)

drawDashedHLine(y, x1, x2, dashLen, gapLen) ==
  DashedFrom(x1, x2, y, TRUE, dashLen, gapLen)

\* ------------------------------------------------------------------------
\* Weather icons.  The offsets are Math.round(c + r*cos), Math.round(c +
\* r*sin) of the source, tabulated relative to the origin the primitive is
\* given, for the origin renderDisplay uses (drawWeatherIcon at (240, 20)).
\* ------------------------------------------------------------------------
ICON_SIZE == 48

SunCircleOffsets ==
  << <<38, 24>>, <<38, 25>>, <<38, 26>>, <<38, 28>>, <<37, 29>>, <<37, 30>>, <<36, 31>>, <<35, 32>>,
     <<35, 33>>, <<34, 34>>, <<33, 35>>, <<32, 35>>, <<31, 36>>, <<30, 37>>, <<29, 37>>, <<28, 38>>,
     <<26, 38>>, <<25, 38>>, <<24, 38>>, <<23, 38>>, <<22, 38>>, <<20, 38>>, <<19, 37>>, <<18, 37>>,
     <<17, 36>>, <<16, 35>>, <<15, 35>>, <<14, 34>>, <<13, 33>>, <<13, 32>>, <<12, 31>>, <<11, 30>>,
     <<11, 29>>, <<10, 28>>, <<10, 26>>, <<10, 25>>, <<10, 24>>, <<10, 23>>, <<10, 22>>, <<10, 20>>,
     <<11, 19>>, <<11, 18>>, <<12, 17>>, <<13, 16>>, <<13, 15>>, <<14, 14>>, <<15, 13>>, <<16, 13>>,
     <<17, 12>>, <<18, 11>>, <<19, 11>>, <<20, 10>>, <<22, 10>>, <<23, 10>>, <<24, 10>>, <<25, 10>>,
     <<26, 10>>, <<28, 10>>, <<29, 11>>, <<30, 11>>, <<31, 12>>, <<32, 13>>, <<33, 13>>, <<34, 14>>,
     <<35, 15>>, <<35, 16>>, <<36, 17>>, <<37, 18>>, <<37, 19>>, <<38, 20>>, <<38, 22>>, <<38, 23>> >>

SunRayEnds ==
  << <<42, 24, 48, 24>>,
     <<37, 37, 41, 41>>,
     <<24, 42, 24, 48>>,
     <<11, 37, 7, 41>>,
     <<6, 24, 0, 24>>,
     <<11, 11, 7, 7>>,
     <<24, 6, 24, 0>>,
     <<37, 11, 41, 7>> >>

CloudArcOffsets20 ==
  << <<2, 8>>, <<9, 6>>, <<19, 10>>, <<2, 8>>, <<9, 5>>, <<19, 10>>, <<2, 7>>, <<9, 5>>,
     <<19, 9>>, <<2, 7>>, <<9, 4>>, <<19, 9>>, <<2, 6>>, <<9, 4>>, <<19, 9>>, <<2, 6>>,
     <<10, 3>>, <<19, 8>>, <<2, 6>>, <<10, 3>>, <<19, 8>>, <<2, 5>>, <<10, 2>>, <<19, 7>>,
     <<2, 5>>, <<10, 2>>, <<19, 7>>, <<2, 4>>, <<10, 1>>, <<19, 7>>, <<3, 4>>, <<11, 1>>,
     <<20, 7>>, <<3, 4>>, <<11, 1>>, <<20, 6>>, <<3, 3>>, <<11, 0>>, <<20, 6>>, <<3, 3>>,
     <<11, 0>>, <<20, 6>>, <<4, 3>>, <<12, -1>>, <<20, 5>>, <<4, 2>>, <<12, -1>>, <<21, 5>>,
     <<4, 2>>, <<13, -1>>, <<21, 5>>, <<5, 2>>, <<13, -2>>, <<21, 5>>, <<5, 2>>, <<13, -2>>,
     <<21, 4>>, <<5, 1>>, <<14, -2>>, <<22, 4>>, <<6, 1>>, <<14, -3>>, <<22, 4>>, <<6, 1>>,
     <<15, -3>>, <<22, 4>>, <<6, 1>>, <<15, -3>>, <<23, 4>>, <<7, 1>>, <<16, -3>>, <<23, 3>>,
     <<7, 0>>, <<16, -4>>, <<23, 3>>, <<8, 0>>, <<17, -4>>, <<24, 3>>, <<8, 0>>, <<17, -4>>,
     <<24, 3>>, <<8, 0>>, <<18, -4>>, <<25, 3>>, <<9, 0>>, <<18, -4>>, <<25, 3>>, <<9, 0>>,
     <<19, -4>>, <<25, 3>>, <<10, 0>>, <<19, -4>>, <<26, 3>>, <<10, 0>>, <<20, -4>>, <<26, 3>>,
     <<10, 0>>, <<20, -4>>, <<26, 3>>, <<11, 0>>, <<21, -4>>, <<27, 3>>, <<11, 0>>, <<21, -4>>,
     <<27, 3>>, <<12, 0>>, <<22, -4>>, <<27, 3>>, <<12, 0>>, <<22, -4>>, <<28, 3>>, <<12, 1>>,
     <<23, -3>>, <<28, 3>>, <<13, 1>>, <<23, -3>>, <<28, 4>>, <<13, 1>>, <<24, -3>>, <<29, 4>>,
     <<14, 1>>, <<24, -3>>, <<29, 4>>, <<14, 1>>, <<25, -2>>, <<29, 4>>, <<14, 2>>, <<25, -2>>,
     <<30, 4>>, <<15, 2>>, <<25, -2>>, <<30, 5>>, <<15, 2>>, <<26, -1>>, <<30, 5>>, <<15, 2>>,
     <<26, -1>>, <<31, 5>>, <<16, 3>>, <<27, -1>>, <<31, 5>>, <<16, 3>>, <<27, 0>>, <<31, 6>>,
     <<16, 3>>, <<27, 0>>, <<31, 6>>, <<16, 4>>, <<28, 1>>, <<31, 6>>, <<17, 4>>, <<28, 1>>,
     <<32, 7>>, <<17, 4>>, <<28, 1>>, <<32, 7>>, <<17, 5>>, <<28, 2>>, <<32, 7>>, <<17, 5>>,
     <<29, 2>>, <<32, 7>>, <<17, 6>>, <<29, 3>>, <<32, 8>>, <<17, 6>>, <<29, 3>>, <<32, 8>>,
     <<17, 6>>, <<29, 4>>, <<32, 9>>, <<18, 7>>, <<29, 4>>, <<33, 9>>, <<18, 7>>, <<29, 5>>,
     <<33, 9>>, <<18, 8>>, <<29, 5>>, <<33, 10>>, <<18, 8>>, <<29, 6>>, <<33, 10>> >>

CloudArcOffsets16 ==
  << <<3, 6>>, <<11, 5>>, <<20, 8>>, <<3, 6>>, <<11, 4>>, <<20, 8>>, <<3, 6>>, <<11, 4>>,
     <<20, 7>>, <<3, 5>>, <<11, 4>>, <<20, 7>>, <<3, 5>>, <<11, 3>>, <<20, 7>>, <<3, 5>>,
     <<11, 3>>, <<20, 7>>, <<4, 4>>, <<12, 2>>, <<20, 6>>, <<4, 4>>, <<12, 2>>, <<20, 6>>,
     <<4, 4>>, <<12, 2>>, <<20, 6>>, <<4, 3>>, <<12, 1>>, <<21, 5>>, <<4, 3>>, <<12, 1>>,
     <<21, 5>>, <<4, 3>>, <<12, 0>>, <<21, 5>>, <<4, 3>>, <<13, 0>>, <<21, 5>>, <<5, 2>>,
     <<13, 0>>, <<21, 4>>, <<5, 2>>, <<13, -1>>, <<21, 4>>, <<5, 2>>, <<14, -1>>, <<22, 4>>,
     <<5, 2>>, <<14, -1>>, <<22, 4>>, <<6, 1>>, <<14, -1>>, <<22, 4>>, <<6, 1>>, <<14, -2>>,
     <<22, 3>>, <<6, 1>>, <<15, -2>>, <<23, 3>>, <<6, 1>>, <<15, -2>>, <<23, 3>>, <<7, 1>>,
     <<16, -2>>, <<23, 3>>, <<7, 1>>, <<16, -3>>, <<23, 3>>, <<7, 0>>, <<16, -3>>, <<24, 3>>,
     <<8, 0>>, <<17, -3>>, <<24, 3>>, <<8, 0>>, <<17, -3>>, <<24, 3>>, <<8, 0>>, <<18, -3>>,
     <<24, 3>>, <<9, 0>>, <<18, -3>>, <<25, 2>>, <<9, 0>>, <<18, -3>>, <<25, 2>>, <<9, 0>>,
     <<19, -3>>, <<25, 2>>, <<10, 0>>, <<19, -3>>, <<26, 2>>, <<10, 0>>, <<20, -3>>, <<26, 2>>,
     <<10, 0>>, <<20, -3>>, <<26, 2>>, <<11, 0>>, <<20, -3>>, <<26, 2>>, <<11, 0>>, <<21, -3>>,
     <<27, 3>>, <<11, 0>>, <<21, -3>>, <<27, 3>>, <<12, 0>>, <<22, -3>>, <<27, 3>>, <<12, 0>>,
     <<22, -3>>, <<28, 3>>, <<12, 1>>, <<22, -3>>, <<28, 3>>, <<13, 1>>, <<23, -2>>, <<28, 3>>,
     <<13, 1>>, <<23, -2>>, <<28, 3>>, <<13, 1>>, <<24, -2>>, <<29, 3>>, <<13, 1>>, <<24, -2>>,
     <<29, 3>>, <<14, 1>>, <<24, -1>>, <<29, 4>>, <<14, 2>>, <<25, -1>>, <<29, 4>>, <<14, 2>>,
     <<25, -1>>, <<30, 4>>, <<14, 2>>, <<25, -1>>, <<30, 4>>, <<15, 2>>, <<25, 0>>, <<30, 4>>,
     <<15, 3>>, <<26, 0>>, <<30, 5>>, <<15, 3>>, <<26, 0>>, <<30, 5>>, <<15, 3>>, <<26, 1>>,
     <<30, 5>>, <<15, 3>>, <<26, 1>>, <<31, 5>>, <<15, 4>>, <<27, 2>>, <<31, 6>>, <<16, 4>>,
     <<27, 2>>, <<31, 6>>, <<16, 4>>, <<27, 2>>, <<31, 6>>, <<16, 5>>, <<27, 3>>, <<31, 7>>,
     <<16, 5>>, <<27, 3>>, <<31, 7>>, <<16, 5>>, <<27, 4>>, <<31, 7>>, <<16, 6>>, <<27, 4>>,
     <<31, 7>>, <<16, 6>>, <<27, 4>>, <<31, 8>>, <<16, 6>>, <<27, 5>>, <<31, 8>> >>

CloudArcOffsets(h) == IF h = 20 THEN CloudArcOffsets20 ELSE CloudArcOffsets16

\* Math.round(h * 0.75) for the two heights in use.
CloudBaseDy(h) == IF h = 20 THEN 15 ELSE 12

\* Math.round(x + w*0.1) - x and Math.round(x + w*0.95) - x for w = 32.
CLOUD_BASE_X1 == 3
CLOUD_BASE_X2 == 30

drawCloudShape(width, x, y, w, h) ==
  { t \in { <<x + CloudArcOffsets(h)[k][1], y + CloudArcOffsets(h)[k][2]>> :
              k \in 1..Len(CloudArcOffsets(h)) } :
      t[1] >= 0 /\ t[1] < width /\ t[2] >= 0 }
  \cup drawHLine(width, y + CloudBaseDy(h), x + CLOUD_BASE_X1, x + CLOUD_BASE_X2, 1)

\* Math.round(a + (b - a) * t / 10)
RayPoint(a, b, t) == a + ((2 * (b - a) * t + 10) \div 20)

SunTargets(width, x, y) ==
  { t \in { <<x + SunCircleOffsets[k][1], y + SunCircleOffsets[k][2]>> :
              k \in 1..Len(SunCircleOffsets) } :
      t[1] >= 0 /\ t[1] < width }
  \cup
  { t \in { <<x + RayPoint(SunRayEnds[i][1], SunRayEnds[i][3], s),
              y + RayPoint(SunRayEnds[i][2], SunRayEnds[i][4], s)>> :
              i \in 1..Len(SunRayEnds), s \in 0..10 } :
      t[1] >= 0 /\ t[1] < width /\ t[2] >= 0 }

FogTargets(width, x, y) ==
  UNION { drawHLine(width, y + 12 + i * 10, x + 4, x + ICON_SIZE - 4, 2) : i \in 0..3 }

RainTargets(width, x, y) ==
  drawCloudShape(width, x + 8, y + 8, 32, 16)
  \cup { <<x + 14 + i * 10, y + 32 + j>> : i \in 0..2, j \in 0..7 }

SnowTargets(width, x, y) ==
  drawCloudShape(width, x + 8, y + 8, 32, 16)
  \cup UNION { LET sx == x + 14 + i * 10
                   sy == y + 36
               IN { <<sx, sy>>, <<sx, sy - 2>>, <<sx, sy + 2>>, <<sx - 2, sy>>, <<sx + 2, sy>> } :
               i \in 0..2 }

ThunderTargets(width, x, y) ==
  drawCloudShape(width, x + 8, y + 4, 32, 16)
  \cup UNION { LET px == (x + 24) + (IF i < 6 THEN -i ELSE i - 12)
                   py == (y + 24) + i * 2
               IN { <<px, py>>, <<px + 1, py>> } : i \in 0..11 }

UnknownTargets(width, x, y) ==
  drawText(width, x + 16, y + 16, <<"?">>, 3)

\* A chain whose last range starts one code late.
IconKindLate(code) ==
  IF code = 0 \/ code = 1 THEN "sun"
  ELSE IF code >= 2 /\ code <= 3 THEN "cloud"
  ELSE IF code >= 45 /\ code <= 48 THEN "fog"
  ELSE IF (code >= 51 /\ code <= 67) \/ (code >= 80 /\ code <= 82) THEN "rain"
  ELSE IF (code >= 71 /\ code <= 77) \/ (code >= 85 /\ code <= 86) THEN "snow"
  ELSE IF code > 95 THEN "thunderstorm"
  ELSE "unknown"

\* The if / else-if chain of drawWeatherIcon.
IconKind(code) ==
  IF code = 0 \/ code = 1 THEN "sun"
  ELSE IF code >= 2 /\ code <= 3 THEN "cloud"
  ELSE IF code >= 45 /\ code <= 48 THEN "fog"
  ELSE IF (code >= 51 /\ code <= 67) \/ (code >= 80 /\ code <= 82) THEN "rain"
  ELSE IF (code >= 71 /\ code <= 77) \/ (code >= 85 /\ code <= 86) THEN "snow"
  ELSE IF code >= 95 THEN "thunderstorm"
  ELSE "unknown"

drawWeatherIcon(width, x, y, code) ==
  CASE IconKind(code) = "sun" -> SunTargets(width, x, y)
    [] IconKind(code) = "cloud" -> drawCloudShape(width, x + 8, y + 16, 32, 20)
    [] IconKind(code) = "fog" -> FogTargets(width, x, y)
    [] IconKind(code) = "rain" -> RainTargets(width, x, y)
    [] IconKind(code) = "snow" -> SnowTargets(width, x, y)
    [] IconKind(code) = "thunderstorm" -> ThunderTargets(width, x, y)
    [] OTHER -> UnknownTargets(width, x, y)

\* Every icon is drawn in INK_BLACK but the fog bands.
IconColor(code) == IF IconKind(code) = "fog" THEN DARK_GRAY ELSE INK_BLACK

\* ------------------------------------------------------------------------
\* Strings
\* ------------------------------------------------------------------------
DAY_NAMES ==
  << <<"S", "U", "N", "D", "A", "Y">>,
     <<"M", "O", "N", "D", "A", "Y">>,
     <<"T", "U", "E", "S", "D", "A", "Y">>,
     <<"W", "E", "D", "N", "E", "S", "D", "A", "Y">>,
     <<"T", "H", "U", "R", "S", "D", "A", "Y">>,
     <<"F", "R", "I", "D", "A", "Y">>,
     <<"S", "A", "T", "U", "R", "D", "A", "Y">> >>

monthNames ==
  << <<"J", "A", "N">>, <<"F", "E", "B">>, <<"M", "A", "R">>, <<"A", "P", "R">>, <<"M", "A", "Y">>, <<"J", "U", "N">>, <<"J", "U", "L">>, <<"A", "U", "G">>, <<"S", "E", "P">>, <<"O", "C", "T">>, <<"N", "O", "V">>, <<"D", "E", "C">> >>

Digit(d) == <<"0", "1", "2", "3", "4", "5", "6", "7", "8", "9">>[d + 1]

\* `${n}` for an integer n.
RECURSIVE NatToString(_)
NatToString(n) == IF n < 10 THEN <<Digit(n)>> ELSE NatToString(n \div 10) \o <<Digit(n % 10)>>

IntToString(n) == IF n < 0 THEN <<"-">> \o NatToString(-n) ELSE NatToString(n)

\* hour: '2-digit', minute: '2-digit', hour12: false
TwoDigit(n) == <<Digit(n \div 10), Digit(n % 10)>>

TimeString(t) == TwoDigit(t.hour) \o <<":">> \o TwoDigit(t.minute)

\* An `if` in place of the `while`: one round of trimming.
TruncateOnce(title, maxTitleWidth) ==
  IF getTextWidth(title, 2) > maxTitleWidth /\ Len(title) > 3
  THEN SubSeq(title, 1, Len(title) - 4) \o <<".", ".", ".">>
  ELSE title

\* The loop body run at most twice.
TruncateTwice(title, maxTitleWidth) ==
  TruncateOnce(TruncateOnce(title, maxTitleWidth), maxTitleWidth)

\* title.slice(0, -4) + '...' while the title is too wide and longer than 3.
RECURSIVE Truncate(_, _)
Truncate(title, maxTitleWidth) ==
  IF getTextWidth(title, 2) > maxTitleWidth /\ Len(title) > 3
  THEN Truncate(SubSeq(title, 1, Len(title) - 4) \o <<".", ".", ".">>, maxTitleWidth)
  ELSE title

\* ------------------------------------------------------------------------
\* The pixel buffer
\* ------------------------------------------------------------------------
Index(width, t) == t[2] * width + t[1]

InBuffer(width, height, i) == i >= 0 /\ i < width * height

\* pixels[py * width + px] = color for every target; a store outside the
\* array is dropped.  The buffer is the sequence of the stores made into a
\* page of PAPER_WHITE: each entry is the set of indices one primitive call
\* stored to, and the value stored.
Paint(p, width, height, targets, color) ==
  Append(p, [ink |-> { i \in { Index(width, t) : t \in targets } : InBuffer(width, height, i) },
             color |-> color])

\* The byte at index i: the value of the latest store to i.
Pixel(p, i) ==
  LET hits == { k \in 1..Len(p) : i \in p[k].ink }
  IN IF hits = {} THEN PAPER_WHITE ELSE p[CHOOSE k \in hits : \A j \in hits : j <= k].color

\* The indices stored to so far.
Written(p) == UNION { p[k].ink : k \in 1..Len(p) }

\* ------------------------------------------------------------------------
\* renderDisplay
\* ------------------------------------------------------------------------
VARIABLES
  width, height, weather, days, generatedAt,  \* renderDisplay's arguments
  pc,           \* where renderDisplay stands
  pixels,       \* the buffer (sparse)
  lastWrites,   \* the targets <<px, py>> stored to by the latest step
  eventY, dayIndex, eventIndex,
  painted       \* the agenda units painted so far, in order

renderVars ==
  <<width, height, weather, days, generatedAt, pc, pixels, lastWrites,
    eventY, dayIndex, eventIndex, painted>>

MARGIN == 24
FOOTER_HEIGHT == 50
weatherSectionHeight == 180
rightX == 240
eventRowHeight == 45
\* A header no taller than what the label step takes back.
dayHeaderHeightFlat == 10 \div 2

dayHeaderHeight == 40
timeColumnWidth == 100

contentWidth == width - MARGIN * 2
maxContentY == height - FOOTER_HEIGHT
\* A date section ten rows taller.
dateSectionEndLow == weatherSectionHeight + 80

dateSectionEnd == weatherSectionHeight + 70
maxTitleWidth == contentWidth - timeColumnWidth - 10
footerY == height - 30

LOCATION == <<"B", "R", "O", "O", "K", "L", "Y", "N", " ", "N", "Y">>
TODAY == <<"T", "O", "D", "A", "Y">>
NO_EVENTS == <<"N", "o", " ", "e", "v", "e", "n", "t", "s">>

\* `${n}` of a field of the snapshot.
NumberString(field) ==
  IF field \in weather.nan THEN <<"N", "a", "N">> ELSE IntToString(weather[field])

tempStr == NumberString("temperature")
hiLoStr ==
  <<"H", ":">> \o NumberString("temperatureHigh") \o <<" ", "L", ":">>
    \o NumberString("temperatureLow")
dateStr ==
  DAY_NAMES[generatedAt.weekday + 1] \o <<",", " ">> \o monthNames[generatedAt.month + 1]
    \o <<" ">> \o IntToString(generatedAt.date)
genStr == <<"G", "e", "n", "e", "r", "a", "t", "e", "d", " ">> \o TimeString(generatedAt)
MoreStr(remaining) == <<"+">> \o IntToString(remaining) \o <<" ", "m", "o", "r", "e", ".", ".", ".">>

\* The day and the event the loops stand at (0-based indices, as in the source).
day == days[dayIndex + 1]
isFirstDay == dayIndex = 0
isToday == day.label = TODAY
event == day.events[eventIndex + 1]

Unit(kind, y, text) ==
  [kind |-> kind, day |-> dayIndex, event |-> eventIndex, y |-> y, text |-> text]

\* new Uint8Array(width * height); pixels.fill(PAPER_WHITE)
Allocate ==
  /\ pc = "alloc"
  /\ pixels' = << >>
  /\ lastWrites' = {}
  /\ pc' = "temperature"
  /\ UNCHANGED <<width, height, weather, days, generatedAt, eventY, dayIndex, eventIndex, painted>>

\* The temperature and its degree sign.
DrawTemperature ==
  /\ pc = "temperature"
  /\ LET t1 == drawText(width, MARGIN, 30, tempStr, 10)
         t2 == drawText(width, MARGIN + getTextWidth(tempStr, 10), 30, <<"deg">>, 4)
     IN /\ pixels' = Paint(pixels, width, height, t1 \cup t2, INK_BLACK)
        /\ lastWrites' = t1 \cup t2
  /\ pc' = "icon"
  /\ UNCHANGED <<width, height, weather, days, generatedAt, eventY, dayIndex, eventIndex, painted>>

DrawIcon ==
  /\ pc = "icon"
  /\ LET undefinedCode == "conditionCode" \in weather.nan
         t == IF undefinedCode THEN UnknownTargets(width, rightX, 20)
              ELSE drawWeatherIcon(width, rightX, 20, weather.conditionCode)
         color == IF undefinedCode THEN INK_BLACK ELSE IconColor(weather.conditionCode)
     IN /\ pixels' = Paint(pixels, width, height, t, color)
        /\ lastWrites' = t
  /\ pc' = "weatherText"
  /\ UNCHANGED <<width, height, weather, days, generatedAt, eventY, dayIndex, eventIndex, painted>>

\* Location, condition, hi/lo and the rule closing the weather section.
DrawWeatherText ==
  /\ pc = "weatherText"
  /\ LET t1 == drawText(width, rightX + 56, 28, LOCATION, 2)
         t2 == drawText(width, rightX + 56, 60, weather.condition, 2)
         t3 == drawText(width, rightX + 56, 92, hiLoStr, 2)
         t4 == drawHLine(width, weatherSectionHeight, MARGIN, width - MARGIN, 3)
         p1 == Paint(pixels, width, height, t1, INK_BLACK)
         p2 == Paint(p1, width, height, t2 \cup t3, DARK_GRAY)
     IN /\ pixels' = Paint(p2, width, height, t4, INK_BLACK)
        /\ lastWrites' = t1 \cup t2 \cup t3 \cup t4
  /\ pc' = "dateHeader"
  /\ UNCHANGED <<width, height, weather, days, generatedAt, eventY, dayIndex, eventIndex, painted>>

\* The date line, its rule, and the agenda cursor's start.
DrawDateHeader ==
  /\ pc = "dateHeader"
  /\ LET t1 == drawCenteredText(width, weatherSectionHeight + 20, dateStr, 3)
         t2 == drawHLine(width, dateSectionEnd, MARGIN, width - MARGIN, 2)
     IN /\ pixels' = Paint(pixels, width, height, t1 \cup t2, INK_BLACK)
        /\ lastWrites' = t1 \cup t2
  /\ eventY' = dateSectionEnd + 20
  /\ dayIndex' = 0
  /\ pc' = "day"
  /\ UNCHANGED <<width, height, weather, days, generatedAt, eventIndex, painted>>

\* A day loop with no space check.
NoSpaceForDayNever == FALSE

\* A space check that asks for the header's height only.
NoSpaceForDayHeaderOnly == eventY + dayHeaderHeight > maxContentY

\* eventY + minSpaceNeeded > maxContentY: no room for a header and one row.
NoSpaceForDay == eventY + (dayHeaderHeight + eventRowHeight) > maxContentY

\* The head of the day loop: the loop condition and the space check.
DayCheck ==
  /\ pc = "day"
  /\ pc' = IF dayIndex < Len(days) /\ ~NoSpaceForDay
           THEN (IF isFirstDay THEN "label" ELSE "separator")
           ELSE "footer"
  /\ lastWrites' = {}
  /\ UNCHANGED <<width, height, weather, days, generatedAt, pixels, eventY, dayIndex, eventIndex, painted>>

DaySeparator ==
  /\ pc = "separator"
  /\ LET t == drawDashedHLine(eventY, MARGIN, width - MARGIN, 6, 4)
     IN /\ pixels' = Paint(pixels, width, height, t, DARK_GRAY)
        /\ lastWrites' = t
  /\ painted' = Append(painted, Unit("separator", eventY, << >>))
  /\ eventY' = eventY + 15
  /\ pc' = "label"
  /\ UNCHANGED <<width, height, weather, days, generatedAt, dayIndex, eventIndex>>

DayLabel ==
  /\ pc = "label"
  /\ LET t == drawText(width, MARGIN, eventY, day.label, 2)
     IN /\ pixels' = Paint(pixels, width, height, t, IF isToday THEN INK_BLACK ELSE DARK_GRAY)
        /\ lastWrites' = t
  /\ painted' = Append(painted, Unit("label", eventY, day.label))
  /\ eventY' = eventY + dayHeaderHeight - 5
  /\ eventIndex' = 0
  /\ pc' = IF Len(day.events) = 0 THEN "noEvents" ELSE "event"
  /\ UNCHANGED <<width, height, weather, days, generatedAt, dayIndex>>

NoEvents ==
  /\ pc = "noEvents"
  /\ LET t == drawText(width, MARGIN + timeColumnWidth, eventY, NO_EVENTS, 2)
     IN /\ pixels' = Paint(pixels, width, height, t, LIGHT_GRAY)
        /\ lastWrites' = t
  /\ painted' = Append(painted, Unit("noEvents", eventY, NO_EVENTS))
  /\ eventY' = eventY + eventRowHeight
  /\ dayIndex' = dayIndex + 1
  /\ pc' = "day"
  /\ UNCHANGED <<width, height, weather, days, generatedAt, eventIndex>>

\* The event loop ends with the day's last event: on to the next day.
EventLoopEnd ==
  /\ pc = "event"
  /\ ~(eventIndex < Len(day.events))
  /\ dayIndex' = dayIndex + 1
  /\ pc' = "day"
  /\ lastWrites' = {}
  /\ UNCHANGED <<width, height, weather, days, generatedAt, pixels, eventY, eventIndex, painted>>

\* A count that leaves out the event the loop stands at.
RemainingOffByOne == Len(day.events) - eventIndex - 1

\* The events of the day that are cut off.
Remaining == Len(day.events) - eventIndex

\* No room for the event: "+N more..." and break out of the event loop.
OverflowMarker ==
  /\ pc = "event"
  /\ eventIndex < Len(day.events)
  /\ eventY + 30 > maxContentY
  /\ LET remaining == Remaining
         t == drawText(width, MARGIN, eventY, MoreStr(remaining), 2)
     IN IF remaining > 0
        THEN /\ pixels' = Paint(pixels, width, height, t, LIGHT_GRAY)
             /\ lastWrites' = t
             /\ painted' = Append(painted, Unit("marker", eventY, MoreStr(remaining)))
             /\ eventY' = eventY + 30
        ELSE /\ lastWrites' = {}
             /\ UNCHANGED <<pixels, painted, eventY>>
  /\ dayIndex' = dayIndex + 1
  /\ pc' = "day"
  /\ UNCHANGED <<width, height, weather, days, generatedAt, eventIndex>>

\* One event row: time, truncated title, and the divider below it.
EventRow ==
  /\ pc = "event"
  /\ eventIndex < Len(day.events)
  /\ ~(eventY + 30 > maxContentY)
  /\ LET title == Truncate(event.title, maxTitleWidth)
         t1 == drawText(width, MARGIN, eventY, event.time, 2)
         t2 == drawText(width, MARGIN + timeColumnWidth, eventY, title, 2)
         divider == eventIndex < Len(day.events) - 1
                      /\ (eventY + 26) + eventRowHeight <= maxContentY
         t3 == IF divider THEN drawHLine(width, eventY + 26, MARGIN, width - MARGIN, 1) ELSE {}
         p1 == Paint(pixels, width, height, t1 \cup t2, IF isToday THEN INK_BLACK ELSE DARK_GRAY)
     IN /\ pixels' = Paint(p1, width, height, t3, LIGHT_GRAY)
        /\ lastWrites' = t1 \cup t2 \cup t3
        /\ painted' = painted \o <<Unit("event", eventY, title)>>
                        \o (IF divider THEN <<Unit("divider", eventY + 26, << >>)>> ELSE << >>)
  /\ eventY' = eventY + eventRowHeight
  /\ eventIndex' = eventIndex + 1
  /\ UNCHANGED <<width, height, weather, days, generatedAt, pc, dayIndex>>

\* The footer rule and the "Generated HH:MM" stamp; renderDisplay returns.
DrawFooter ==
  /\ pc = "footer"
  /\ LET t1 == drawHLine(width, footerY - 10, MARGIN, width - MARGIN, 1)
         t2 == drawRightAlignedText(width, footerY, genStr, 1, MARGIN)
         p1 == Paint(pixels, width, height, t1, LIGHT_GRAY)
     IN /\ pixels' = Paint(p1, width, height, t2, DARK_GRAY)
        /\ lastWrites' = t1 \cup t2
  /\ pc' = "done"
  /\ UNCHANGED <<width, height, weather, days, generatedAt, eventY, dayIndex, eventIndex, painted>>

\* ------------------------------------------------------------------------
\* Weather snapshots
\* ------------------------------------------------------------------------
WMO_CODES ==
  0 :> <<"C", "l", "e", "a", "r">> @@
  1 :> <<"M", "o", "s", "t", "l", "y", " ", "C", "l", "e", "a", "r">> @@
  2 :> <<"P", "a", "r", "t", "l", "y", " ", "C", "l", "o", "u", "d", "y">> @@
  3 :> <<"O", "v", "e", "r", "c", "a", "s", "t">> @@
  45 :> <<"F", "o", "g", "g", "y">> @@
  48 :> <<"R", "i", "m", "e", " ", "F", "o", "g">> @@
  51 :> <<"L", "i", "g", "h", "t", " ", "D", "r", "i", "z", "z", "l", "e">> @@
  53 :> <<"D", "r", "i", "z", "z", "l", "e">> @@
  55 :> <<"H", "e", "a", "v", "y", " ", "D", "r", "i", "z", "z", "l", "e">> @@
  61 :> <<"L", "i", "g", "h", "t", " ", "R", "a", "i", "n">> @@
  63 :> <<"R", "a", "i", "n">> @@
  65 :> <<"H", "e", "a", "v", "y", " ", "R", "a", "i", "n">> @@
  66 :> <<"F", "r", "e", "e", "z", "i", "n", "g", " ", "R", "a", "i", "n">> @@
  67 :> <<"H", "e", "a", "v", "y", " ", "F", "r", "e", "e", "z", "i", "n", "g", " ", "R", "a", "i", "n">> @@
  71 :> <<"L", "i", "g", "h", "t", " ", "S", "n", "o", "w">> @@
  73 :> <<"S", "n", "o", "w">> @@
  75 :> <<"H", "e", "a", "v", "y", " ", "S", "n", "o", "w">> @@
  77 :> <<"S", "n", "o", "w", " ", "G", "r", "a", "i", "n", "s">> @@
  80 :> <<"L", "i", "g", "h", "t", " ", "S", "h", "o", "w", "e", "r", "s">> @@
  81 :> <<"S", "h", "o", "w", "e", "r", "s">> @@
  82 :> <<"H", "e", "a", "v", "y", " ", "S", "h", "o", "w", "e", "r", "s">> @@
  85 :> <<"L", "i", "g", "h", "t", " ", "S", "n", "o", "w", " ", "S", "h", "o", "w", "e", "r", "s">> @@
  86 :> <<"S", "n", "o", "w", " ", "S", "h", "o", "w", "e", "r", "s">> @@
  95 :> <<"T", "h", "u", "n", "d", "e", "r", "s", "t", "o", "r", "m">> @@
  96 :> <<"T", "h", "u", "n", "d", "e", "r", "s", "t", "o", "r", "m", " ", "+", " ", "H", "a", "i", "l">> @@
  99 :> <<"S", "e", "v", "e", "r", "e", " ", "T", "h", "u", "n", "d", "e", "r", "s", "t", "o", "r", "m">>

\* WMO_CODES[code] || 'Unknown'
ConditionText(code) == IF code \in DOMAIN WMO_CODES THEN WMO_CODES[code] ELSE <<"U", "n", "k", "n", "o", "w", "n">>

\* The snapshot fetchWeather builds from a response.  A field of the body
\* that is missing reads as undefined: Math.round makes NaN of it and the
\* code stays undefined.  `nan` names the fields that hold no number; the
\* number kept under such a field is never read.
Snapshot(temp, high, low, code) ==
  [temperature |-> temp, temperatureHigh |-> high, temperatureLow |-> low,
   condition |-> ConditionText(code), conditionCode |-> code, nan |-> {}]

\* The snapshot fetchWeather returns when the fetch fails.
Unavailable ==
  [temperature |-> 0, temperatureHigh |-> 0, temperatureLow |-> 0,
   condition |-> <<"U", "n", "a", "v", "a", "i", "l", "a", "b", "l", "e">>, conditionCode |-> -1,
   nan |-> {}]

\* getMockEvents
getMockEvents(now) ==
  << [label |-> TODAY,
      date |-> [day |-> now.day, hour |-> now.hour, minute |-> now.minute],
      events |-> << [time |-> <<"0", "9", ":", "0", "0">>, title |-> <<"T", "e", "a", "m", " ", "S", "t", "a", "n", "d", "u", "p">>, isAllDay |-> FALSE],
                    [time |-> <<"1", "1", ":", "3", "0">>, title |-> <<"D", "e", "s", "i", "g", "n", " ", "R", "e", "v", "i", "e", "w">>, isAllDay |-> FALSE],
                    [time |-> <<"1", "4", ":", "0", "0">>, title |-> <<"D", "e", "e", "p", " ", "W", "o", "r", "k", " ", "B", "l", "o", "c", "k">>, isAllDay |-> FALSE] >>],
     [label |-> <<"T", "O", "M", "O", "R", "R", "O", "W">>,
      date |-> [day |-> now.day + 1, hour |-> now.hour, minute |-> now.minute],
      events |-> << [time |-> <<"1", "0", ":", "0", "0">>, title |-> <<"C", "l", "i", "e", "n", "t", " ", "C", "a", "l", "l">>, isAllDay |-> FALSE] >>] >>

\* ------------------------------------------------------------------------
\* createBMP
\* ------------------------------------------------------------------------
VARIABLES
  bmpPc,        \* "call" before createBMP runs, "returned" after
  bmpWidth, bmpHeight,
  pixelData,    \* the buffer handed in: index -> byte
  bmpOut        \* the bytes returned: index -> byte

bmpVars == <<bmpPc, bmpWidth, bmpHeight, pixelData, bmpOut>>

\* Byte k (0 = lowest) of v as DataView stores it little-endian; for a
\* negative v these are the bytes of its two's complement.
ByteOf(v, k) == (v \div (256 ^ k)) % 256

\* view.setUint32(off, v, true), view.setInt32(off, v, true)
setUint32(buffer, off, v) ==
  [ j \in DOMAIN buffer |-> IF j >= off /\ j < off + 4 THEN ByteOf(v, j - off) ELSE buffer[j] ]

\* view.setUint16(off, v, true)
setUint16(buffer, off, v) ==
  [ j \in DOMAIN buffer |-> IF j >= off /\ j < off + 2 THEN ByteOf(v, j - off) ELSE buffer[j] ]

\* Rows rounded down to a multiple of four.
paddedRowSizeFloor(w) == (w \div 4) * 4

\* Math.ceil(width / 4) * 4
paddedRowSize(w) == ((w + 3) \div 4) * 4

headerSize == 14
dibHeaderSize == 40
paletteSize == 256 * 4

fileSize(w, h) == headerSize + dibHeaderSize + paletteSize + paddedRowSize(w) * h

\* The file and DIB headers.
WriteHeaders(buffer, w, h) ==
  LET b0 == [buffer EXCEPT ![0] = 66, ![1] = 77]
      b1 == setUint32(b0, 2, fileSize(w, h))
      b2 == setUint32(b1, 6, 0)
      b3 == setUint32(b2, 10, headerSize + dibHeaderSize + paletteSize)
      b4 == setUint32(b3, 14, dibHeaderSize)
      b5 == setUint32(b4, 18, w)
      b6 == setUint32(b5, 22, -h)
      b7 == setUint16(b6, 26, 1)
      b8 == setUint16(b7, 28, 8)
      b9 == setUint32(b8, 30, 0)
      b10 == setUint32(b9, 34, paddedRowSize(w) * h)
      b11 == setUint32(b10, 38, 2835)
      b12 == setUint32(b11, 42, 2835)
      b13 == setUint32(b12, 46, 256)
  IN setUint32(b13, 50, 256)

\* The grayscale palette: entry i is (i, i, i, 0).
WritePalette(buffer) ==
  LET paletteOffset == headerSize + dibHeaderSize
  IN [ j \in DOMAIN buffer |->
         IF j >= paletteOffset /\ j < paletteOffset + 256 * 4
         THEN (IF (j - paletteOffset) % 4 = 3 THEN 0 ELSE (j - paletteOffset) \div 4)
         ELSE buffer[j] ]

\* Rows written last row first.
WritePixelsBottomUp(buffer, w, h, data) ==
  LET pixelOffset == headerSize + dibHeaderSize + paletteSize
      cells == (0..(w - 1)) \X (0..(h - 1))
      at(c) == pixelOffset + (h - 1 - c[2]) * paddedRowSize(w) + c[1]
  IN [ j \in DOMAIN buffer |->
         IF \E c \in cells : at(c) = j
         THEN data[(CHOOSE c \in cells : at(c) = j)[2] * w + (CHOOSE c \in cells : at(c) = j)[1]]
         ELSE buffer[j] ]

\* buffer[pixelOffset + y * paddedRowSize + x] = pixelData[y * width + x]
WritePixels(buffer, w, h, data) ==
  LET pixelOffset == headerSize + dibHeaderSize + paletteSize
      cells == (0..(w - 1)) \X (0..(h - 1))
      at(c) == pixelOffset + c[2] * paddedRowSize(w) + c[1]
  IN [ j \in DOMAIN buffer |->
         IF \E c \in cells : at(c) = j
         THEN data[(CHOOSE c \in cells : at(c) = j)[2] * w + (CHOOSE c \in cells : at(c) = j)[1]]
         ELSE buffer[j] ]

createBMP(w, h, data) ==
  LET buffer == [ j \in 0..(fileSize(w, h) - 1) |-> 0 ]
  IN WritePixels(WritePalette(WriteHeaders(buffer, w, h)), w, h, data)

\* The encoder's calls that are explored.
MaxBmpWidth == 3
MaxBmpHeight == 2
PixelValues == {INK_BLACK, PAPER_WHITE}

InitBmp ==
  /\ bmpPc = "call"
  /\ bmpWidth \in 1..MaxBmpWidth
  /\ bmpHeight \in 1..MaxBmpHeight
  /\ pixelData \in [0..(bmpWidth * bmpHeight - 1) -> PixelValues]
  /\ bmpOut = << >>

CreateBMP ==
  /\ bmpPc = "call"
  /\ bmpOut' = createBMP(bmpWidth, bmpHeight, pixelData)
  /\ bmpPc' = "returned"
  /\ UNCHANGED <<bmpWidth, bmpHeight, pixelData>>

\* ------------------------------------------------------------------------
\* parseInt and the display dimensions
\* ------------------------------------------------------------------------
DecDigits == <<"0", "1", "2", "3", "4", "5", "6", "7", "8", "9">>
HexDigits == DecDigits \o <<"a", "b", "c", "d", "e", "f">>

\* The value of character c as a digit of the radix, or -1.
DigitValue(c, radix) ==
  LET ds == IF radix = 16 THEN HexDigits ELSE DecDigits
  IN IF \E k \in 1..Len(ds) : ds[k] = c THEN (CHOOSE k \in 1..Len(ds) : ds[k] = c) - 1 ELSE -1

RECURSIVE SkipSpaces(_)
SkipSpaces(s) == IF Len(s) > 0 /\ s[1] = " " THEN SkipSpaces(Tail(s)) ELSE s

\* The digits read so far (n of them, value acc) and the rest of the string.
RECURSIVE ReadDigits(_, _, _, _)
ReadDigits(s, radix, acc, n) ==
  IF Len(s) > 0 /\ DigitValue(s[1], radix) >= 0
  THEN ReadDigits(Tail(s), radix, acc * radix + DigitValue(s[1], radix), n + 1)
  ELSE [value |-> acc, count |-> n]

\* parseInt(s): leading blanks, a sign, an optional 0x, then the longest run
\* of digits; NaN when there is none.  The result is [nan, value].
parseInt(s) ==
  LET s1 == SkipSpaces(s)
      neg == Len(s1) > 0 /\ s1[1] = "-"
      s2 == IF Len(s1) > 0 /\ (s1[1] = "-" \/ s1[1] = "+") THEN Tail(s1) ELSE s1
      hex == Len(s2) >= 2 /\ s2[1] = "0" /\ s2[2] = "x"
      s3 == IF hex THEN SubSeq(s2, 3, Len(s2)) ELSE s2
      r == ReadDigits(s3, IF hex THEN 16 ELSE 10, 0, 0)
  IN IF r.count = 0 THEN [nan |-> TRUE, value |-> 0]
     ELSE [nan |-> FALSE, value |-> IF neg THEN -r.value ELSE r.value]

DEFAULT_WIDTH == 480
DEFAULT_HEIGHT == 800

\* parseInt(text) || fallback: NaN and 0 are falsy.
Dimension(text, fallback) ==
  LET n == parseInt(text)
  IN IF n.nan \/ n.value = 0 THEN fallback ELSE n.value

\* ------------------------------------------------------------------------
\* fetchWeather and fetchCalendarEvents
\* ------------------------------------------------------------------------
\* Math.round of a temperature given in tenths of a degree.
RoundTenths(t) == (t + 5) \div 10

\* A body read without looking whether `current` and `daily` are there.
WeatherFromBodyNoCatch(body) ==
  Snapshot(RoundTenths(body.temperature_2m), RoundTenths(body.max),
           RoundTenths(body.min), body.weather_code)

\* The snapshot built from a parsed body; a body without `current` or
\* `daily` (or without the arrays of `daily`) makes the property access
\* throw, and the catch answers.  A missing number is rounded to NaN, a
\* missing code gives the text 'Unknown' and an undefined code.
WeatherFromBody(body) ==
  IF ~body.hasCurrent \/ ~body.hasDaily THEN Unavailable
  ELSE [temperature |-> IF body.hasTemp THEN RoundTenths(body.temperature_2m) ELSE 0,
        temperatureHigh |-> IF body.hasMax THEN RoundTenths(body.max) ELSE 0,
        temperatureLow |-> IF body.hasMin THEN RoundTenths(body.min) ELSE 0,
        condition |-> IF body.hasCode THEN ConditionText(body.weather_code)
                      ELSE <<"U", "n", "k", "n", "o", "w", "n">>,
        conditionCode |-> IF body.hasCode THEN body.weather_code ELSE 0,
        nan |-> {f \in {"temperature"} : ~body.hasTemp}
                \cup {f \in {"temperatureHigh"} : ~body.hasMax}
                \cup {f \in {"temperatureLow"} : ~body.hasMin}
                \cup {f \in {"conditionCode"} : ~body.hasCode}]

\* getDayLabel: dates are day numbers, today being todayDate.
getDayLabel(date, todayDate, tomorrowDate, todayWeekday) ==
  IF date.day = todayDate THEN TODAY
  ELSE IF date.day = tomorrowDate THEN <<"T", "O", "M", "O", "R", "R", "O", "W">>
  ELSE DAY_NAMES[((todayWeekday + (date.day - todayDate)) % 7) + 1]

\* date.getTime()
getTime(date) == date.day * 1440 + date.hour * 60 + date.minute

\* The event made of one item of the response.
EventOfItem(item) ==
  [title |-> IF Len(item.summary) = 0 THEN <<"U", "n", "t", "i", "t", "l", "e", "d">> ELSE item.summary,
   time |-> IF item.isAllDay THEN <<"A", "l", "l", " ", "D", "a", "y">> ELSE TimeString(item.start),
   isAllDay |-> item.isAllDay]

\* eventsByDate: the groups in the order their dates first appear, each with
\* the start of its first item.
RECURSIVE GroupByDate(_, _)
GroupByDate(items, groups) ==
  IF Len(items) = 0 THEN groups
  ELSE LET item == Head(items)
           key == item.start.day
           has == \E k \in 1..Len(groups) : groups[k].date.day = key
           at == CHOOSE k \in 1..Len(groups) : groups[k].date.day = key
       IN GroupByDate(Tail(items),
            IF has
            THEN [groups EXCEPT ![at].events = Append(@, EventOfItem(item))]
            ELSE Append(groups, [date |-> item.start, events |-> <<EventOfItem(item)>>]))

\* days.sort((a, b) => a.date.getTime() - b.date.getTime()): stable.
RECURSIVE InsertDay(_, _)
InsertDay(sorted, d) ==
  IF Len(sorted) = 0 THEN <<d>>
  ELSE IF getTime(d.date) < getTime(sorted[Len(sorted)].date)
       THEN Append(InsertDay(SubSeq(sorted, 1, Len(sorted) - 1), d), sorted[Len(sorted)])
       ELSE Append(sorted, d)

RECURSIVE SortDays(_, _)
SortDays(list, sorted) ==
  IF Len(list) = 0 THEN sorted ELSE SortDays(Tail(list), InsertDay(sorted, Head(list)))

\* The day list fetchCalendarEvents returns for the items of a response.
DaysFromItems(items, now) ==
  LET groups == GroupByDate(items, << >>)
      labelled == [ k \in 1..Len(groups) |->
                     [label |-> getDayLabel(groups[k].date, now.day, now.day + 1, now.weekday),
                      date |-> groups[k].date,
                      events |-> groups[k].events] ]
      sorted == SortDays(labelled, << >>)
  IN IF Len(sorted) = 0 \/ sorted[1].label # TODAY
     THEN <<[label |-> TODAY, date |-> [day |-> now.day, hour |-> now.hour, minute |-> now.minute],
             events |-> << >>]>> \o sorted
     ELSE sorted

\* ------------------------------------------------------------------------
\* The request handler
\* ------------------------------------------------------------------------
VARIABLES
  env,           \* DISPLAY_WIDTH, DISPLAY_HEIGHT (as text), and whether the
                 \* calendar key and id are set
  hpc,           \* where the handler stands
  hWidth, hHeight,
  wxTask,        \* fetchWeather's call: [pc, value]
  calTask,       \* fetchCalendarEvents' call: [pc, value]
  allValues,     \* Promise.all's result array
  allRemaining,  \* Promise.all's count of promises not yet fulfilled
  order,         \* the calls in the order they were fulfilled
  renderCalls,   \* the arguments of each renderDisplay call
  bmpCalls       \* the dimensions of each createBMP call

handlerVars ==
  <<env, hpc, hWidth, hHeight, wxTask, calTask, allValues, allRemaining, order,
    renderCalls, bmpCalls>>

\* The clock of the request: day number, weekday, and the date fields.
Now == [day |-> 0, weekday |-> 3, month |-> 8, date |-> 30, hour |-> 9, minute |-> 5]

NoValue == [from |-> "none", value |-> << >>]

\* new Uint8Array(width * height) throws a RangeError on a negative length.
RenderThrows(w, h) == w * h < 0

\* Slots handed out in the order the calls are fulfilled.
AllSlotByArrival(which) == 3 - allRemaining

\* The slot of Promise.all's array a call's value goes to: its position in
\* the array literal.
AllSlot(which) == IF which = "weather" THEN 1 ELSE 2

\* The handler parses the dimensions and starts both calls; a worker with
\* no calendar key or id gets the mock agenda at once.
HandlerStart ==
  /\ hpc = "start"
  /\ hWidth' = Dimension(env.DISPLAY_WIDTH, DEFAULT_WIDTH)
  /\ hHeight' = Dimension(env.DISPLAY_HEIGHT, DEFAULT_HEIGHT)
  /\ wxTask' = [pc |-> "fetch", value |-> Unavailable, outcome |-> "pending"]
  /\ calTask' = IF env.configured
                THEN [pc |-> "fetch", value |-> << >>, outcome |-> "pending"]
                ELSE [pc |-> "returned", value |-> getMockEvents(Now), outcome |-> "unconfigured"]
  /\ hpc' = "awaitAll"
  /\ UNCHANGED <<env, allValues, allRemaining, order, renderCalls, bmpCalls>>

\* The weather request settles: a network error or a non-OK status ends in
\* the catch.
WeatherFetchSettles ==
  /\ wxTask.pc = "fetch"
  /\ \E outcome \in {"reject", "notOk", "ok"} :
       wxTask' = IF outcome = "ok" THEN [wxTask EXCEPT !.pc = "json"]
                 ELSE [pc |-> "returned", value |-> Unavailable, outcome |-> outcome]
  /\ UNCHANGED <<env, hpc, hWidth, hHeight, calTask, allValues, allRemaining, order,
                 renderCalls, bmpCalls>>

\* A response body: whether it parses as JSON, which objects and fields it
\* has, and the numbers (in tenths of a degree) of the fields it has.
Body(valid, hasCurrent, hasDaily, has, t, code, max, min) ==
  [valid |-> valid, hasCurrent |-> hasCurrent, hasDaily |-> hasDaily,
   hasTemp |-> "t" \in has, hasCode |-> "code" \in has,
   hasMax |-> "max" \in has, hasMin |-> "min" \in has,
   temperature_2m |-> t, weather_code |-> code, max |-> max, min |-> min]

AllFields == {"t", "code", "max", "min"}

WeatherBodies ==
  { Body(FALSE, FALSE, FALSE, {}, 0, 0, 0, 0),
    Body(TRUE, FALSE, TRUE, {"max", "min"}, 0, 0, 781, 605),
    Body(TRUE, TRUE, FALSE, {"t", "code"}, 716, 0, 0, 0),
    Body(TRUE, TRUE, TRUE, AllFields, 716, 0, 781, 605),
    Body(TRUE, TRUE, TRUE, AllFields, -45, 71, 14, -120),
    Body(TRUE, TRUE, TRUE, {"code", "max", "min"}, 0, 3, 781, 605),
    Body(TRUE, TRUE, TRUE, {}, 0, 0, 0, 0) }

\* What became of a body: no JSON, an object missing, a field missing, or
\* all there.
BodyOutcome(body) ==
  IF ~body.valid THEN "badJson"
  ELSE IF ~body.hasCurrent \/ ~body.hasDaily THEN "noObject"
  ELSE IF ~(body.hasTemp /\ body.hasCode /\ body.hasMax /\ body.hasMin) THEN "partial"
  ELSE "ok"

\* response.json() settles: a body that is no JSON ends in the catch.
WeatherJsonSettles ==
  /\ wxTask.pc = "json"
  /\ \E body \in WeatherBodies :
       wxTask' = [pc |-> "returned",
                  value |-> IF body.valid THEN WeatherFromBody(body) ELSE Unavailable,
                  outcome |-> BodyOutcome(body)]
  /\ UNCHANGED <<env, hpc, hWidth, hHeight, calTask, allValues, allRemaining, order,
                 renderCalls, bmpCalls>>

CalendarFetchSettles ==
  /\ calTask.pc = "fetch"
  /\ \E outcome \in {"reject", "notOk", "ok"} :
       calTask' = IF outcome = "ok" THEN [calTask EXCEPT !.pc = "json"]
                  ELSE [pc |-> "returned", value |-> getMockEvents(Now), outcome |-> outcome]
  /\ UNCHANGED <<env, hpc, hWidth, hHeight, wxTask, allValues, allRemaining, order,
                 renderCalls, bmpCalls>>

Item(summary, allDay, d, h, m) ==
  [summary |-> summary, isAllDay |-> allDay, start |-> [day |-> d, hour |-> h, minute |-> m]]

CalendarBodies ==
  { [valid |-> FALSE, items |-> << >>],
    [valid |-> TRUE, items |-> << >>],
    [valid |-> TRUE,
     items |-> << Item(<<"S", "t", "a", "n", "d", "u", "p">>, FALSE, 0, 9, 0),
                  Item(<<"O", "f", "f", "s", "i", "t", "e">>, TRUE, 1, 0, 0),
                  Item(<< >>, FALSE, 1, 14, 30) >>],
    [valid |-> TRUE,
     items |-> << Item(<<"D", "e", "n", "t", "i", "s", "t">>, FALSE, 2, 8, 15) >>],
    [valid |-> TRUE,
     items |-> << Item(<<"L", "u", "n", "c", "h">>, FALSE, 1, 12, 0),
                  Item(<<"S", "t", "a", "n", "d", "u", "p">>, FALSE, 0, 9, 0) >>],
    [valid |-> TRUE,
     items |-> << Item(<<"T", "r", "i", "p">>, TRUE, -1, 0, 0),
                  Item(<<"S", "t", "a", "n", "d", "u", "p">>, FALSE, 0, 9, 0) >>] }

CalendarJsonSettles ==
  /\ calTask.pc = "json"
  /\ \E body \in CalendarBodies :
       calTask' = [pc |-> "returned",
                   value |-> IF body.valid THEN DaysFromItems(body.items, Now)
                             ELSE getMockEvents(Now),
                   outcome |-> IF body.valid THEN "ok" ELSE "badJson"]
  /\ UNCHANGED <<env, hpc, hWidth, hHeight, wxTask, allValues, allRemaining, order,
                 renderCalls, bmpCalls>>

\* Promise.all takes the value of a fulfilled call into its array.
AllFulfilWeather ==
  /\ wxTask.pc = "returned"
  /\ wxTask' = [wxTask EXCEPT !.pc = "delivered"]
  /\ allValues' = [allValues EXCEPT ![AllSlot("weather")] = [from |-> "weather", value |-> wxTask.value]]
  /\ allRemaining' = allRemaining - 1
  /\ order' = Append(order, "weather")
  /\ UNCHANGED <<env, hpc, hWidth, hHeight, calTask, renderCalls, bmpCalls>>

AllFulfilCalendar ==
  /\ calTask.pc = "returned"
  /\ calTask' = [calTask EXCEPT !.pc = "delivered"]
  /\ allValues' = [allValues EXCEPT ![AllSlot("calendar")] = [from |-> "calendar", value |-> calTask.value]]
  /\ allRemaining' = allRemaining - 1
  /\ order' = Append(order, "calendar")
  /\ UNCHANGED <<env, hpc, hWidth, hHeight, wxTask, renderCalls, bmpCalls>>

\* Promise.all is fulfilled: [weather, days] are its array's elements, and
\* renderDisplay is called.
HandlerRender ==
  /\ hpc = "awaitAll"
  /\ allRemaining = 0
  /\ renderCalls' = Append(renderCalls,
       [width |-> hWidth, height |-> hHeight,
        weather |-> allValues[1], days |-> allValues[2], generatedAt |-> Now])
  /\ hpc' = IF RenderThrows(hWidth, hHeight) THEN "failed" ELSE "encode"
  /\ UNCHANGED <<env, hWidth, hHeight, wxTask, calTask, allValues, allRemaining, order, bmpCalls>>

\* createBMP and the response.
HandlerRespond ==
  /\ hpc = "encode"
  /\ bmpCalls' = Append(bmpCalls, [width |-> hWidth, height |-> hHeight])
  /\ hpc' = "responded"
  /\ UNCHANGED <<env, hWidth, hHeight, wxTask, calTask, allValues, allRemaining, order,
                 renderCalls>>

\* The configurations that are explored: a variable that is not set reads
\* as undefined.
DimTexts ==
  { <<"u", "n", "d", "e", "f", "i", "n", "e", "d">>,
    << >>,
    <<"a", "b", "c">>,
    <<"0">>,
    <<"-", "5">>,
    <<"4", "8", "0">>,
    <<"3", "2", "0">>,
    <<"1", "2", "p", "x">>,
    <<" ", "7">>,
    <<"-", "0">>,
    <<"0", "x", "1", "0">> }

InitHandler ==
  /\ env \in [DISPLAY_WIDTH : DimTexts, DISPLAY_HEIGHT : DimTexts, configured : BOOLEAN]
  /\ hpc = "start"
  /\ hWidth = 0
  /\ hHeight = 0
  /\ wxTask = [pc |-> "idle", value |-> Unavailable, outcome |-> "pending"]
  /\ calTask = [pc |-> "idle", value |-> << >>, outcome |-> "pending"]
  /\ allValues = <<NoValue, NoValue>>
  /\ allRemaining = 2
  /\ order = << >>
  /\ renderCalls = << >>
  /\ bmpCalls = << >>

\* ------------------------------------------------------------------------
\* The calls of renderDisplay that are explored
\* ------------------------------------------------------------------------
MaxDays == 2
MaxEvents == 3
MaxTitleLen == 24

TitleText == <<"Q", "u", "a", "r", "t", "e", "r", "l", "y", " ", "r", "o", "a", "d", "m", "a", "p", " ", "r", "e", "v", "i", "e", "w", " ", "(", "Q", "3", ")", "!">>

\* A title of n characters.
TitleOfLen(n) == [ i \in 1..n |-> TitleText[((i - 1) % Len(TitleText)) + 1] ]

Times == << <<"0", "9", ":", "0", "0">>, <<"A", "l", "l", " ", "D", "a", "y">>, <<"1", "4", ":", "3", "0">> >>

\* The k-th event of a day (k = 1, 2, ...): times and title lengths vary with k.
PoolEvent(k) ==
  [time |-> Times[(k % 3) + 1],
   title |-> TitleOfLen((k * 7) % (MaxTitleLen + 1)),
   isAllDay |-> (k % 3) + 1 = 2]

DayLabels == << TODAY, <<"T", "O", "M", "O", "R", "R", "O", "W">> >>

\* The label of the i-th day of a list: TODAY, TOMORROW, then weekday names.
LabelOf(i) == IF i <= Len(DayLabels) THEN DayLabels[i] ELSE DAY_NAMES[((i + 1) % 7) + 1]

\* Day lists given by their event counts: the i-th day has counts[i] events.
DaysOf(counts) ==
  [ i \in 1..Len(counts) |->
      [label |-> LabelOf(i), events |-> [ k \in 1..counts[i] |-> PoolEvent(k) ]] ]

DayLists == { DaysOf(c) : c \in UNION { [1..n -> 0..MaxEvents] : n \in 0..MaxDays } }

\* Two clocks: Wednesday, SEP 30, 09:05 and Sunday, JAN 1, 23:59.
NewYear == [day |-> 93, weekday |-> 0, month |-> 0, date |-> 1, hour |-> 23, minute |-> 59]

GenTimes == { Now, NewYear }

Clear72 == Snapshot(72, 78, 61, 0)

Weathers ==
  { Unavailable, Clear72, Snapshot(-5, 3, -12, 71), Snapshot(100, 104, 88, 3),
    Snapshot(55, 60, 50, 45), Snapshot(64, 70, 59, 61), Snapshot(80, 85, 75, 95),
    Snapshot(40, 45, 35, 4),
    WeatherFromBody(Body(TRUE, TRUE, TRUE, {}, 0, 0, 0, 0)) }

Call(w, h, wx, d, g) ==
  [width |-> w, height |-> h, weather |-> wx, days |-> d, generatedAt |-> g]

\* Agendas of every shape on canvases that hold two to five rows.
AgendaCalls ==
  { Call(480, h, Clear72, d, g) :
      h \in {400, 420, 440, 460, 520}, d \in DayLists,
      g \in { Now } }

\* One event with a title of every length, on canvases of several widths.
TitleCalls ==
  { Call(w, 800, Clear72,
         << [label |-> TODAY,
             events |-> << [time |-> Times[1], title |-> TitleOfLen(n), isAllDay |-> FALSE] >>] >>,
         Now) :
      w \in {480, 260, 200}, n \in 0..MaxTitleLen }

\* Every weather on the default canvas and on small ones.
WeatherCalls ==
  { Call(c[1], c[2], wx, d, g) :
      c \in { <<480, 800>>, <<480, 100>>, <<250, 800>>, <<1, 1>> },
      wx \in Weathers, d \in { << >>, getMockEvents(Now) }, g \in GenTimes }

Calls == AgendaCalls \cup TitleCalls \cup WeatherCalls

InitRender ==
  /\ \E c \in Calls :
       /\ width = c.width
       /\ height = c.height
       /\ weather = c.weather
       /\ days = c.days
       /\ generatedAt = c.generatedAt
  /\ pc = "alloc"
  /\ pixels = << >>
  /\ lastWrites = {}
  /\ eventY = 0
  /\ dayIndex = 0
  /\ eventIndex = 0
  /\ painted = << >>

\* ------------------------------------------------------------------------
\* Calls of single functions: the title truncation loop
\* ------------------------------------------------------------------------
VARIABLES
  fnPc,      \* where the call stands
  fnArgs,    \* its arguments
  fnResult   \* what it has returned so far, in order

fnVars == <<fnPc, fnArgs, fnResult>>

FnIdle ==
  /\ fnPc = "idle"
  /\ fnArgs = << >>
  /\ fnResult = << >>

\* Titles of every length, plain or already ending in the ellipsis, and
\* column widths around every multiple of the 16 pixels of a character.
TruncTitles ==
  { TitleOfLen(n) : n \in 0..MaxTitleLen }
    \cup { TitleOfLen(n) \o <<".", ".", ".">> : n \in 0..3 }

TruncWidths ==
  { 16 * k + r : k \in 0..MaxTitleLen, r \in {0, 15} } \cup { -1 }

InitTruncate ==
  /\ fnPc = "call"
  /\ fnArgs \in [title : TruncTitles, maxTitleWidth : TruncWidths]
  /\ fnResult = << >>

\* let title = event.title; while (...) { ... }
TruncateCall ==
  /\ fnPc = "call"
  /\ fnResult' = << Truncate(fnArgs.title, fnArgs.maxTitleWidth) >>
  /\ fnPc' = "truncated"
  /\ UNCHANGED fnArgs

\* The loop run once more on what it produced.
TruncateAgain ==
  /\ fnPc = "truncated"
  /\ fnResult' = Append(fnResult, Truncate(fnResult[1], fnArgs.maxTitleWidth))
  /\ fnPc' = "again"
  /\ UNCHANGED fnArgs

\* drawChar called on a fresh page: every character of the table and two
\* that are not in it, every scale up to MaxScale, both inks, and origins
\* that keep the 8 x 12 cell inside the page or push it over an edge.
MaxScale == 2

CharWidth == 8 * MaxScale + 4

CharHeight == 12 * MaxScale + 4

CharChars == DOMAIN FONT_DATA \cup {"?", "~"}

InitDrawChar ==
  /\ fnPc = "drawChar"
  /\ \E char \in CharChars, scale \in 1..MaxScale, color \in {INK_BLACK, DARK_GRAY} :
       \E x \in {-1, 0, 2, CharWidth - 8 * scale, CharWidth - 8 * scale + 1},
          y \in {0, 1, CharHeight - 12 * scale} :
         fnArgs = [width |-> CharWidth, height |-> CharHeight, x |-> x, y |-> y,
                   char |-> char, color |-> color, scale |-> scale]
  /\ fnResult = << >>

\* drawChar(pixels, width, x, y, char, color, scale) on new Uint8Array(width * height).fill(PAPER_WHITE)
DrawCharCall ==
  /\ fnPc = "drawChar"
  /\ fnResult' = Paint(<< >>, fnArgs.width, fnArgs.height,
                       drawChar(fnArgs.width, fnArgs.x, fnArgs.y, fnArgs.char, fnArgs.scale),
                       fnArgs.color)
  /\ fnPc' = "drawn"
  /\ UNCHANGED fnArgs

\* ------------------------------------------------------------------------
\* The firmware's CalendarActivity
\* ------------------------------------------------------------------------
VARIABLES
  state,          \* CalendarState, or "NOT_ENTERED" before onEnter
  elapsed,        \* millis() - stateStartTime, kept up to MaxElapsed
  hasSsid,        \* a dedicated or a saved SSID exists
  wifiStatus,     \* "idle", "connecting", "connected", "off"
  errorMessage,   \* the message of the latest handleError
  sleepActivity,  \* saveAndRender has entered the SleepActivity
  timerWakeup,    \* esp_sleep_enable_timer_wakeup has been called
  deepSleep       \* esp_deep_sleep_start has been called

fwVars ==
  <<state, elapsed, hasSsid, wifiStatus, errorMessage, sleepActivity, timerWakeup, deepSleep>>

FwIdle ==
  /\ state = "NOT_ENTERED"
  /\ elapsed = 0
  /\ hasSsid = FALSE
  /\ wifiStatus = "off"
  /\ errorMessage = ""
  /\ sleepActivity = FALSE
  /\ timerWakeup = FALSE
  /\ deepSleep = TRUE

WIFI_TIMEOUT_MS == 30000
HTTP_TIMEOUT_MS == 60000
ERROR_SHOWN_MS == 3000

\* The clock is read as the time since stateStartTime; past MaxElapsed every
\* timeout has run out and the value is kept there.
MaxElapsed == 61000
TickSizes == {500, 1000}

InitFirmware ==
  /\ state = "NOT_ENTERED"
  /\ elapsed = 0
  /\ hasSsid \in BOOLEAN
  /\ wifiStatus = "idle"
  /\ errorMessage = ""
  /\ sleepActivity = FALSE
  /\ timerWakeup = FALSE
  /\ deepSleep = FALSE

\* handleError: state = ERROR, stateStartTime = millis().
handleError(message) ==
  /\ state' = "ERROR"
  /\ elapsed' = 0
  /\ errorMessage' = message

\* scheduleWakeAndSleep: WiFi off, timer wake-up armed, deep sleep.
scheduleWakeAndSleep ==
  /\ wifiStatus' = "off"
  /\ timerWakeup' = TRUE
  /\ deepSleep' = TRUE

\* onEnter and connectToWifi.
OnEnter ==
  /\ state = "NOT_ENTERED"
  /\ ~deepSleep
  /\ IF ~hasSsid
     THEN /\ handleError("No WiFi credentials")
          /\ UNCHANGED wifiStatus
     ELSE /\ state' = "CONNECTING_WIFI"
          /\ elapsed' = 0
          /\ wifiStatus' = "connecting"
          /\ UNCHANGED errorMessage
  /\ UNCHANGED <<hasSsid, sleepActivity, timerWakeup, deepSleep>>

\* The access point answers: WiFi.status() becomes WL_CONNECTED.
WifiConnects ==
  /\ ~deepSleep
  /\ wifiStatus = "connecting"
  /\ wifiStatus' = "connected"
  /\ UNCHANGED <<state, elapsed, hasSsid, errorMessage, sleepActivity, timerWakeup, deepSleep>>

\* millis() advances.
Tick ==
  /\ ~deepSleep
  /\ state # "NOT_ENTERED"
  /\ \E d \in TickSizes : elapsed' = Min(elapsed + d, MaxElapsed)
  /\ UNCHANGED <<state, hasSsid, wifiStatus, errorMessage, sleepActivity, timerWakeup, deepSleep>>

\* loop() in CONNECTING_WIFI.
LoopConnectingWifi ==
  /\ ~deepSleep
  /\ state = "CONNECTING_WIFI"
  /\ IF wifiStatus = "connected"
     THEN /\ state' = "FETCHING_IMAGE"
          /\ elapsed' = 0
          /\ UNCHANGED errorMessage
     ELSE IF elapsed > WIFI_TIMEOUT_MS
     THEN handleError("WiFi timeout")
     ELSE UNCHANGED <<state, elapsed, errorMessage>>
  /\ UNCHANGED <<hasSsid, wifiStatus, sleepActivity, timerWakeup, deepSleep>>

\* loop() in FETCHING_IMAGE: fetchImage() blocks for a while and answers;
\* the timeout is looked at after it.
LoopFetchingImage ==
  /\ ~deepSleep
  /\ state = "FETCHING_IMAGE"
  /\ \E fetched \in BOOLEAN, took \in TickSizes \cup {0} :
       LET now == Min(elapsed + took, MaxElapsed)
       IN IF fetched
          THEN /\ state' = "RENDERING"
               /\ elapsed' = now
               /\ UNCHANGED errorMessage
          ELSE IF now > HTTP_TIMEOUT_MS
          THEN handleError("HTTP timeout")
          ELSE /\ elapsed' = now
               /\ UNCHANGED <<state, errorMessage>>
  /\ UNCHANGED <<hasSsid, wifiStatus, sleepActivity, timerWakeup, deepSleep>>

\* loop() in RENDERING: saveAndRender(), then SCHEDULING_SLEEP.
LoopRendering ==
  /\ ~deepSleep
  /\ state = "RENDERING"
  /\ sleepActivity' = TRUE
  /\ state' = "SCHEDULING_SLEEP"
  /\ UNCHANGED <<elapsed, hasSsid, wifiStatus, errorMessage, timerWakeup, deepSleep>>

\* loop() in SCHEDULING_SLEEP.
LoopSchedulingSleep ==
  /\ ~deepSleep
  /\ state = "SCHEDULING_SLEEP"
  /\ scheduleWakeAndSleep
  /\ UNCHANGED <<state, elapsed, hasSsid, errorMessage, sleepActivity>>

\* An error that stays on the screen for good.
ErrorShownNever == FALSE

\* millis() - stateStartTime > 3000
ErrorShown == elapsed > ERROR_SHOWN_MS

\* loop() in ERROR.
LoopError ==
  /\ ~deepSleep
  /\ state = "ERROR"
  /\ IF ErrorShown
     THEN scheduleWakeAndSleep
     ELSE UNCHANGED <<wifiStatus, timerWakeup, deepSleep>>
  /\ UNCHANGED <<state, elapsed, hasSsid, errorMessage, sleepActivity>>

\* One call of loop().
Loop ==
  \/ LoopConnectingWifi
  \/ LoopFetchingImage
  \/ LoopRendering
  \/ LoopSchedulingSleep
  \/ LoopError

\* ------------------------------------------------------------------------
\* Specifications: renderDisplay, createBMP and the handler, each on its own
\* ------------------------------------------------------------------------
vars == <<renderVars, bmpVars, handlerVars, fnVars, fwVars>>

RenderIdle ==
  /\ width = 1
  /\ height = 1
  /\ weather = Unavailable
  /\ days = << >>
  /\ generatedAt = Now
  /\ pc = "idle"
  /\ pixels = << >>
  /\ lastWrites = {}
  /\ eventY = 0
  /\ dayIndex = 0
  /\ eventIndex = 0
  /\ painted = << >>

BmpIdle ==
  /\ bmpPc = "idle"
  /\ bmpWidth = 1
  /\ bmpHeight = 1
  /\ pixelData = << >>
  /\ bmpOut = << >>

HandlerIdle ==
  /\ env = [DISPLAY_WIDTH |-> << >>, DISPLAY_HEIGHT |-> << >>, configured |-> FALSE]
  /\ hpc = "idle"
  /\ hWidth = 0
  /\ hHeight = 0
  /\ wxTask = [pc |-> "idle", value |-> Unavailable, outcome |-> "pending"]
  /\ calTask = [pc |-> "idle", value |-> << >>, outcome |-> "pending"]
  /\ allValues = <<NoValue, NoValue>>
  /\ allRemaining = 2
  /\ order = << >>
  /\ renderCalls = << >>
  /\ bmpCalls = << >>

NextRender ==
  \/ Allocate /\ UNCHANGED <<bmpVars, handlerVars, fnVars, fwVars>>
  \/ DrawTemperature /\ UNCHANGED <<bmpVars, handlerVars, fnVars, fwVars>>
  \/ DrawIcon /\ UNCHANGED <<bmpVars, handlerVars, fnVars, fwVars>>
  \/ DrawWeatherText /\ UNCHANGED <<bmpVars, handlerVars, fnVars, fwVars>>
  \/ DrawDateHeader /\ UNCHANGED <<bmpVars, handlerVars, fnVars, fwVars>>
  \/ DayCheck /\ UNCHANGED <<bmpVars, handlerVars, fnVars, fwVars>>
  \/ DaySeparator /\ UNCHANGED <<bmpVars, handlerVars, fnVars, fwVars>>
  \/ DayLabel /\ UNCHANGED <<bmpVars, handlerVars, fnVars, fwVars>>
  \/ NoEvents /\ UNCHANGED <<bmpVars, handlerVars, fnVars, fwVars>>
  \/ EventLoopEnd /\ UNCHANGED <<bmpVars, handlerVars, fnVars, fwVars>>
  \/ OverflowMarker /\ UNCHANGED <<bmpVars, handlerVars, fnVars, fwVars>>
  \/ EventRow /\ UNCHANGED <<bmpVars, handlerVars, fnVars, fwVars>>
  \/ DrawFooter /\ UNCHANGED <<bmpVars, handlerVars, fnVars, fwVars>>

NextHandler ==
  \/ HandlerStart /\ UNCHANGED <<renderVars, bmpVars, fnVars, fwVars>>
  \/ WeatherFetchSettles /\ UNCHANGED <<renderVars, bmpVars, fnVars, fwVars>>
  \/ WeatherJsonSettles /\ UNCHANGED <<renderVars, bmpVars, fnVars, fwVars>>
  \/ CalendarFetchSettles /\ UNCHANGED <<renderVars, bmpVars, fnVars, fwVars>>
  \/ CalendarJsonSettles /\ UNCHANGED <<renderVars, bmpVars, fnVars, fwVars>>
  \/ AllFulfilWeather /\ UNCHANGED <<renderVars, bmpVars, fnVars, fwVars>>
  \/ AllFulfilCalendar /\ UNCHANGED <<renderVars, bmpVars, fnVars, fwVars>>
  \/ HandlerRender /\ UNCHANGED <<renderVars, bmpVars, fnVars, fwVars>>
  \/ HandlerRespond /\ UNCHANGED <<renderVars, bmpVars, fnVars, fwVars>>

InitRenderOnly == InitRender /\ BmpIdle /\ HandlerIdle /\ FnIdle /\ FwIdle

\* drawWeatherIcon on its own: every code of -MaxCode..MaxCode under a
\* condition text that fits it or not, at the place renderDisplay draws it.
MaxCode == 100

IconTexts == { ConditionText(0), ConditionText(95) }

InitIcon ==
  /\ width = 480
  /\ height = 800
  /\ \E code \in (-MaxCode)..MaxCode, text \in IconTexts :
       weather = [Snapshot(0, 0, 0, code) EXCEPT !.condition = text]
  /\ days = << >>
  /\ generatedAt = Now
  /\ pc = "icon"
  /\ pixels = << >>
  /\ lastWrites = {}
  /\ eventY = 0
  /\ dayIndex = 0
  /\ eventIndex = 0
  /\ painted = << >>

InitIconOnly == InitIcon /\ BmpIdle /\ HandlerIdle /\ FnIdle /\ FwIdle

NextIcon == DrawIcon /\ UNCHANGED <<bmpVars, handlerVars, fnVars, fwVars>>

SpecIcon == InitIconOnly /\ [][NextIcon]_vars

NextTruncate ==
  \/ TruncateCall /\ UNCHANGED <<renderVars, bmpVars, handlerVars, fwVars>>
  \/ TruncateAgain /\ UNCHANGED <<renderVars, bmpVars, handlerVars, fwVars>>

InitTruncateOnly == InitTruncate /\ RenderIdle /\ BmpIdle /\ HandlerIdle /\ FwIdle

SpecTruncate == InitTruncateOnly /\ [][NextTruncate]_vars

NextDrawChar == DrawCharCall /\ UNCHANGED <<renderVars, bmpVars, handlerVars, fwVars>>

InitDrawCharOnly == InitDrawChar /\ RenderIdle /\ BmpIdle /\ HandlerIdle /\ FwIdle

SpecDrawChar == InitDrawCharOnly /\ [][NextDrawChar]_vars

OtherVars == <<renderVars, bmpVars, handlerVars, fnVars>>

NextFirmware ==
  \/ OnEnter /\ UNCHANGED OtherVars
  \/ WifiConnects /\ UNCHANGED OtherVars
  \/ Tick /\ UNCHANGED OtherVars
  \/ LoopConnectingWifi /\ UNCHANGED OtherVars
  \/ LoopFetchingImage /\ UNCHANGED OtherVars
  \/ LoopRendering /\ UNCHANGED OtherVars
  \/ LoopSchedulingSleep /\ UNCHANGED OtherVars
  \/ LoopError /\ UNCHANGED OtherVars

InitFirmwareOnly == InitFirmware /\ RenderIdle /\ BmpIdle /\ HandlerIdle /\ FnIdle

\* The activity is entered, loop() keeps being called and time advances;
\* whether the access point ever answers is left open.
FairFirmware ==
  /\ WF_vars(OnEnter /\ UNCHANGED OtherVars)
  /\ WF_vars(Loop /\ UNCHANGED OtherVars)
  /\ WF_vars(Tick /\ UNCHANGED OtherVars)

SpecFirmware == InitFirmwareOnly /\ [][NextFirmware]_vars /\ FairFirmware

SpecRender == InitRenderOnly /\ [][NextRender]_vars

NextBmp == CreateBMP /\ UNCHANGED <<renderVars, handlerVars, fnVars, fwVars>>

InitBmpOnly == InitBmp /\ RenderIdle /\ HandlerIdle /\ FnIdle /\ FwIdle

SpecBmp == InitBmpOnly /\ [][NextBmp]_vars

InitHandlerOnly == InitHandler /\ RenderIdle /\ BmpIdle /\ FnIdle /\ FwIdle

SpecHandler == InitHandlerOnly /\ [][NextHandler]_vars

\* ------------------------------------------------------------------------
\* Properties
\* ------------------------------------------------------------------------
UnitsOf(kind) == { k \in 1..Len(painted) : painted[k].kind = kind }
UnitsOfDay(kind, d) == { k \in UnitsOf(kind) : painted[k].day = d }

\* C1: a day whose label is painted and whose events are not all painted as
\* rows gets exactly one "+N more..." marker, N being the number of its
\* events without a row, and a render paints at most one marker.  A day is
\* looked at once the day loop has left it (dayIndex is past it).
C1_OneMarkerWithCount ==
  /\ Cardinality(UnitsOf("marker")) <= 1
  /\ \A d \in 0..(dayIndex - 1) :
       (d < Len(days) /\ UnitsOfDay("label", d) # {}
          /\ Cardinality(UnitsOfDay("event", d)) < Len(days[d + 1].events))
       => /\ Cardinality(UnitsOfDay("marker", d)) = 1
          /\ \A k \in UnitsOfDay("marker", d) :
               painted[k].text
                 = MoreStr(Len(days[d + 1].events) - Cardinality(UnitsOfDay("event", d)))

\* A finished render whose only day had one row painted and two events cut.
C1_Witness ==
  /\ pc = "done"
  /\ \E k \in UnitsOf("marker") :
       /\ painted[k].text = MoreStr(2)
       /\ Cardinality(UnitsOfDay("event", painted[k].day)) = 1
       /\ Len(days[painted[k].day + 1].events) = 3

\* C2: once the "+N more..." marker is painted nothing more of the agenda is
\* painted: the marker is the last unit of the agenda, whatever days follow.
C2_MarkerIsLast == \A k \in UnitsOf("marker") : k = Len(painted)

\* A finished render with a marker in a day that other days follow.
C2_Witness ==
  /\ pc = "done"
  /\ \E k \in UnitsOf("marker") : painted[k].day + 1 < Len(days)

\* C3: every store of renderDisplay and its primitives addresses an index
\* inside [0, width*height).
C3_WritesInBuffer == \A t \in lastWrites : InBuffer(width, height, Index(width, t))

\* C4 as claimed: every painted title fits the title column.
C4_TitleFits ==
  \A k \in UnitsOf("event") : getTextWidth(painted[k].text, 2) <= maxTitleWidth

\* C4, amended: every painted title fits the title column or is at most 3
\* characters long (the trimming stops there).
C4_TitleFitsOrShort ==
  \A k \in UnitsOf("event") :
    getTextWidth(painted[k].text, 2) <= maxTitleWidth \/ Len(painted[k].text) <= 3

\* A painted title that was trimmed more than once and still has more than
\* three characters.
C4_Witness ==
  \E k \in UnitsOf("event") :
    /\ Len(painted[k].text) > 3
    /\ Len(days[painted[k].day + 1].events[painted[k].event + 1].title) > Len(painted[k].text) + 1

\* C5: for a condition code outside all ranges the icon is the "?" glyph at
\* scale 3 at (16, 16) from the icon origin: the font has the glyph, and
\* after drawWeatherIcon its ink pixels are black.
C5_UnknownIconIsGlyph ==
  (pc = "weatherText" /\ IconKind(weather.conditionCode) = "unknown")
  => /\ "?" \in DOMAIN FONT_DATA
     /\ lastWrites # {}
     /\ \A t \in lastWrites :
          InBuffer(width, height, Index(width, t)) => Pixel(pixels, Index(width, t)) = INK_BLACK

\* C6: renderDisplay and createBMP are only ever called with both
\* dimensions strictly positive.
C6_DimensionsPositive ==
  /\ \A k \in 1..Len(renderCalls) : renderCalls[k].width > 0 /\ renderCalls[k].height > 0
  /\ \A k \in 1..Len(bmpCalls) : bmpCalls[k].width > 0 /\ bmpCalls[k].height > 0

\* The stretch of row `row` between the margins of a rule: columns x1..x2-1.
RuleIs(row, color) ==
  \A x \in MARGIN..(width - MARGIN - 1) : Pixel(pixels, row * width + x) = color

\* C7: with no days, on the 480x800 canvas and whatever the weather, the
\* finished buffer has the weather rule (rows 180-182) and the date rule
\* (rows 250-251) in black, the footer rule (row height-40) in light gray and
\* the timestamp in dark gray, and every pixel of the rows between the date
\* rule and the footer rule is 255 (a pixel never stored to is 255, so the
\* pixels stored to are the ones to look at).
C7_EmptyAgendaStaysWhite ==
  (pc = "done" /\ days = << >> /\ width = 480 /\ height = 800)
  => /\ \A row \in 180..182 : RuleIs(row, INK_BLACK)
     /\ \A row \in 250..251 : RuleIs(row, INK_BLACK)
     /\ RuleIs(height - 40, LIGHT_GRAY)
     /\ LET stamp == drawRightAlignedText(width, footerY, genStr, 1, MARGIN)
        IN /\ stamp # {}
           /\ \A t \in stamp : Pixel(pixels, Index(width, t)) = DARK_GRAY
     /\ \A i \in Written(pixels) :
          (i \div width > 251 /\ i \div width < height - 40)
          => Pixel(pixels, i) = PAPER_WHITE

\* A finished render of no days on the default canvas with the fallback
\* weather, the footer being the latest thing painted.
C7_Witness ==
  /\ pc = "done" /\ days = << >> /\ width = 480 /\ height = 800
  /\ weather = Unavailable
  /\ lastWrites # {}

\* The number of bytes of a Uint8Array modelled as a function on 0..n-1.
ByteLength(buffer) == Cardinality(DOMAIN buffer)

\* ceil(w / 4), by its definition: the least q with 4 * q >= w.
CeilQuarter(w) == CHOOSE q \in 0..w : 4 * q >= w /\ \A r \in 0..w : 4 * r >= w => q <= r

\* Little-endian fields read back from the returned bytes.
U16At(off) == bmpOut[off] + 256 * bmpOut[off + 1]
U32At(off) == U16At(off) + 65536 * (bmpOut[off + 2] + 256 * bmpOut[off + 3])
\* The same four bytes read as a two's-complement number.
I32At(off) ==
  U16At(off) + 65536 * (bmpOut[off + 2]
                         + 256 * (IF bmpOut[off + 3] >= 128 THEN bmpOut[off + 3] - 256
                                  ELSE bmpOut[off + 3]))

\* C8: createBMP returns 14 + 40 + 1024 + ceil(width/4)*4*height bytes, and
\* the little-endian header fields are 'BM', the file size (the returned
\* length), reserved 0, offset 1078, info-header size 40, width, -height in
\* two's complement, 1 plane, 8 bits, compression 0, the pixel-data size,
\* 256 colours used and 256 important.
C8_LengthAndHeader ==
  bmpPc = "returned"
  => LET dataSize == CeilQuarter(bmpWidth) * 4 * bmpHeight
     IN /\ DOMAIN bmpOut = 0..(14 + 40 + 1024 + dataSize - 1)
        /\ bmpOut[0] = 66 /\ bmpOut[1] = 77
        /\ U32At(2) = ByteLength(bmpOut)
        /\ U32At(6) = 0
        /\ U32At(10) = 1078
        /\ U32At(14) = 40
        /\ U32At(18) = bmpWidth
        /\ I32At(22) = -bmpHeight
        /\ U16At(26) = 1
        /\ U16At(28) = 8
        /\ U32At(30) = 0
        /\ U32At(34) = dataSize
        /\ U32At(46) = 256
        /\ U32At(50) = 256

\* An encoded image whose rows need padding.
C8_Witness ==
  /\ bmpPc = "returned"
  /\ bmpWidth = 3 /\ bmpHeight = 2
  /\ ByteLength(bmpOut) = 1086

\* The <<red, green, blue>> a top-down 8-bit reader gives pixel (x, y): the
\* palette entry (stored blue, green, red, reserved) named by the pixel byte.
Decode(x, y) ==
  LET index == bmpOut[1078 + y * (CeilQuarter(bmpWidth) * 4) + x]
  IN <<bmpOut[54 + 4 * index + 2], bmpOut[54 + 4 * index + 1], bmpOut[54 + 4 * index]>>

\* C9: the byte at 1078 + y*ceil(width/4)*4 + x is pixelData[y*width + x],
\* palette entry i is (i, i, i, 0), the pad bytes of every row are 0, and a
\* buffer of 255s decodes to white everywhere.
C9_RoundTrip ==
  bmpPc = "returned"
  => LET stride == CeilQuarter(bmpWidth) * 4
     IN /\ \A x \in 0..(bmpWidth - 1), y \in 0..(bmpHeight - 1) :
             /\ (1078 + y * stride + x) \in DOMAIN bmpOut
             /\ bmpOut[1078 + y * stride + x] = pixelData[y * bmpWidth + x]
        /\ \A i \in 0..255 :
             /\ \A k \in 0..2 : bmpOut[54 + 4 * i + k] = i
             /\ bmpOut[54 + 4 * i + 3] = 0
        /\ \A y \in 0..(bmpHeight - 1), x \in bmpWidth..(stride - 1) :
             bmpOut[1078 + y * stride + x] = 0
        /\ (\A i \in DOMAIN pixelData : pixelData[i] = 255)
           => \A x \in 0..(bmpWidth - 1), y \in 0..(bmpHeight - 1) :
                Decode(x, y) = <<255, 255, 255>>

\* An encoded image of two padded rows that differ.
C9_Witness ==
  /\ bmpPc = "returned"
  /\ bmpWidth = 3 /\ bmpHeight = 2
  /\ pixelData[0] # pixelData[3]
  /\ bmpOut[1078] = pixelData[0] /\ bmpOut[1082] = pixelData[3]

\* C10: renderDisplay is called at most once, and exactly once when the
\* handler has gone past it; at the call both fetchWeather and
\* fetchCalendarEvents have produced their value and Promise.all has taken
\* it, and the weather and the days passed are the values those two calls
\* produced, in whatever order they finished.
C10_RenderAfterBothOnce ==
  /\ Len(renderCalls) <= 1
  /\ hpc \in {"encode", "responded", "failed"} => Len(renderCalls) = 1
  /\ \A k \in 1..Len(renderCalls) :
       /\ wxTask.pc = "delivered" /\ calTask.pc = "delivered"
       /\ renderCalls[k].weather.from = "weather"
       /\ renderCalls[k].days.from = "calendar"
       /\ renderCalls[k].weather.value = wxTask.value
       /\ renderCalls[k].days.value = calTask.value

\* A request answered after the calendar call finished before the weather
\* call, both with fetched values.
C10_Witness ==
  /\ hpc = "responded"
  /\ order = <<"calendar", "weather">>
  /\ Len(renderCalls) = 1
  /\ env.configured
  /\ wxTask.value # Unavailable
  /\ calTask.value # getMockEvents(Now)

\* A call that has settled: fetchWeather or fetchCalendarEvents has returned.
Settled(task) == task.pc \in {"returned", "delivered"}

\* The fixed mock agenda: TODAY with 3 events and TOMORROW with 1.
IsMockAgenda(value) ==
  /\ value = getMockEvents(Now)
  /\ Len(value) = 2
  /\ value[1].label = TODAY /\ Len(value[1].events) = 3
  /\ value[2].label = <<"T", "O", "M", "O", "R", "R", "O", "W">> /\ Len(value[2].events) = 1

\* The calendar half of C11, and the part of the weather half that does not
\* depend on what a malformed body is: a call that has settled has returned
\* a value, and the handler goes on once both have.
FetchFailuresAbsorbed(weatherFailures) ==
  /\ (Settled(wxTask) /\ wxTask.outcome \in weatherFailures) => wxTask.value = Unavailable
  /\ (Settled(calTask) /\ calTask.outcome \in {"unconfigured", "reject", "notOk", "badJson"})
     => IsMockAgenda(calTask.value)
  /\ Settled(wxTask) => wxTask.outcome # "pending" /\ DOMAIN wxTask.value = DOMAIN Unavailable
  /\ Settled(calTask) => calTask.outcome # "pending" /\ Len(calTask.value) >= 1
  /\ hpc \in {"encode", "responded", "failed"} => Settled(wxTask) /\ Settled(calTask)

TableIcon(code) ==
  IF code \in 0..1 THEN "sun"
  ELSE IF code \in 2..3 THEN "cloud"
  ELSE IF code \in 45..48 THEN "fog"
  ELSE IF code \in (51..67) \cup (80..82) THEN "rain"
  ELSE IF code \in (71..77) \cup (85..86) THEN "snow"
  ELSE IF code >= 95 THEN "thunderstorm"
  ELSE "unknown"

\* The strokes of each icon at the place renderDisplay draws it.
IconStrokes(kind) ==
  CASE kind = "sun" -> SunTargets(width, rightX, 20)
    [] kind = "cloud" -> drawCloudShape(width, rightX + 8, 20 + 16, 32, 20)
    [] kind = "fog" -> FogTargets(width, rightX, 20)
    [] kind = "rain" -> RainTargets(width, rightX, 20)
    [] kind = "snow" -> SnowTargets(width, rightX, 20)
    [] kind = "thunderstorm" -> ThunderTargets(width, rightX, 20)
    [] OTHER -> UnknownTargets(width, rightX, 20)

Kinds == {"sun", "cloud", "fog", "rain", "snow", "thunderstorm", "unknown"}

\* C12: for every integer code drawWeatherIcon draws the icon the range
\* table gives (0-1 sun, 2-3 cloud, 45-48 fog, 51-67 and 80-82 rain, 71-77
\* and 85-86 snow, >= 95 thunderstorm, anything else unknown) and no other
\* icon, whatever the condition text is.
C12_IconByRangeTable ==
  pc = "weatherText"
  => /\ lastWrites = IconStrokes(TableIcon(weather.conditionCode))
     /\ \A kind \in Kinds \ {TableIcon(weather.conditionCode)} : lastWrites # IconStrokes(kind)
     /\ weather.conditionCode \in ((-MaxCode)..(-1)) \cup (4..44) \cup (49..50) \cup (68..70)
                                    \cup (78..79) \cup (83..84) \cup (87..94)
        => lastWrites = UnknownTargets(width, rightX, 20)

\* The snow icon drawn for code 86 under the text of a clear sky.
C12_Witness ==
  /\ pc = "weatherText"
  /\ weather.conditionCode = 86
  /\ weather.condition = ConditionText(0)
  /\ lastWrites = SnowTargets(width, rightX, 20)
  /\ lastWrites # {}

\* The day loop stands at the space check of a day that is not the first.
AtCheckOfLaterDay == pc = "day" /\ dayIndex >= 1 /\ dayIndex < Len(days)

\* C13 as claimed: when the space check of a day that is not the first is
\* evaluated, that day's dashed separator has been painted (and the cursor
\* advanced past it).
C13_SeparatorBeforeCheck ==
  AtCheckOfLaterDay => UnitsOfDay("separator", dayIndex) # {}

\* C13, amended: the space check of a day comes first.  At the check the
\* day's separator is not painted; a separator is painted only for a later
\* day that passed the check, at the cursor position the check was made
\* against, and the label follows 15 rows below it.
C13_CheckBeforeSeparator ==
  /\ AtCheckOfLaterDay => UnitsOfDay("separator", dayIndex) = {}
  /\ pc = "separator" => ~isFirstDay /\ eventY + (dayHeaderHeight + eventRowHeight) <= maxContentY
  /\ \A k \in UnitsOf("separator") :
       /\ painted[k].day >= 1
       /\ painted[k].y + (dayHeaderHeight + eventRowHeight) <= maxContentY
       /\ k < Len(painted) => /\ painted[k + 1].kind = "label"
                             /\ painted[k + 1].day = painted[k].day
                             /\ painted[k + 1].y = painted[k].y + 15

\* A finished render whose second day failed the check: nothing of it is
\* painted, its separator included, and no marker was painted either.
C13_Witness ==
  /\ pc = "done"
  /\ Len(days) = 2 /\ dayIndex = 1
  /\ UnitsOf("marker") = {}
  /\ UnitsOfDay("separator", 1) = {}
  /\ UnitsOfDay("label", 0) # {}

\* C14: the truncation loop applied to its own output, for the same width,
\* returns it unchanged.
C14_TruncateIdempotent ==
  fnPc = "again" => fnResult[2] = fnResult[1]

\* A title the loop shortened by more than one step, truncated again.
C14_Witness ==
  /\ fnPc = "again"
  /\ Len(fnResult[1]) > 3
  /\ Len(fnResult[1]) + 1 < Len(fnArgs.title)
  /\ fnResult[2] = fnResult[1]

C16_CursorAdvances ==
  [][ /\ eventY' >= eventY
      /\ painted' # painted
         => /\ eventY' > eventY
            /\ Len(painted') > Len(painted)
            /\ \A k \in (Len(painted) + 1)..Len(painted') :
                 /\ painted'[k].y >= eventY
                 /\ painted'[k].y < eventY'
                 /\ \A j \in 1..(k - 1) : painted'[j].y < painted'[k].y ]_vars

\* A finished render that painted a separator, labels, rows and a marker.
C16_Witness ==
  /\ pc = "done"
  /\ UnitsOf("separator") # {} /\ UnitsOf("event") # {} /\ UnitsOf("marker") # {}
  /\ Cardinality(UnitsOf("label")) = 2
  /\ \A j, k \in 1..Len(painted) : j < k => painted[j].y < painted[k].y

\* C17: a pixel meant for a column outside [0, width) is not written: every
\* store that reaches the buffer is to the row it was computed for, its
\* column being inside the canvas.
C17_ColumnsClipped ==
  \A t \in lastWrites :
    InBuffer(width, height, Index(width, t)) => t[1] >= 0 /\ t[1] < width

\* The pixels the 12 rows of the glyph's mask call for, each set bit a
\* scale x scale block.
MaskTargets(a) ==
  { <<a.x + rc[2] * a.scale + sx, a.y + rc[1] * a.scale + sy>> :
      rc \in { q \in (0..11) \X (0..7) : BitSet(FONT_DATA[a.char][q[1] + 1], q[2]) },
      sx \in 0..(a.scale - 1), sy \in 0..(a.scale - 1) }

CellInside(a) ==
  /\ a.x >= 0 /\ a.x + 8 * a.scale <= a.width
  /\ a.y >= 0 /\ a.y + 12 * a.scale <= a.height

\* C18: for a character of the font table, any scale and a cell wholly
\* inside the buffer, after drawChar the pixels of the blocks of the set bits
\* of all 12 mask rows hold the ink and every other pixel is still paper; for
\* a character not in the table every pixel is still paper.
C18_DrawCharPaintsMask ==
  fnPc = "drawn" =>
    IF fnArgs.char \notin DOMAIN FONT_DATA
    THEN \A i \in 0..(fnArgs.width * fnArgs.height - 1) : Pixel(fnResult, i) = PAPER_WHITE
    ELSE CellInside(fnArgs) =>
           LET mask == { Index(fnArgs.width, t) : t \in MaskTargets(fnArgs) }
           IN \A i \in 0..(fnArgs.width * fnArgs.height - 1) :
                Pixel(fnResult, i) = IF i \in mask THEN fnArgs.color ELSE PAPER_WHITE

\* A glyph drawn at scale 2 with its cell inside the page, its lowest set
\* row (row 6) painted; and a page left blank by a character without a glyph.
C18_Witness ==
  /\ fnPc = "drawn"
  /\ \/ /\ fnArgs.char = "Q" /\ fnArgs.scale = 2 /\ CellInside(fnArgs) /\ fnArgs.x > 0
        /\ \E px \in 0..(fnArgs.width - 1) :
             Pixel(fnResult, Index(fnArgs.width, <<px, fnArgs.y + 6 * 2 + 1>>)) = fnArgs.color
     \/ /\ fnArgs.char = "?"
        /\ Written(fnResult) = {}

\* The latest step painted an agenda unit: lastWrites are that unit's stores.
AgendaStep == pc \in {"label", "noEvents", "event", "day"} /\ painted # << >>

\* C19: every pixel an agenda unit paints is in a row above maxContentY, so
\* no agenda unit reaches the footer rule at row height - 40 or the rows of
\* the footer timestamp.
C19_AgendaAboveFooter ==
  AgendaStep => \A t \in lastWrites : t[2] < maxContentY

\* The events of the day an agenda unit belongs to.
EventsOf(u) == days[u.day + 1].events

\* C20: the unit painted after the label of a day that has events is the
\* full row of that day's first event, never the overflow marker; and a
\* marker "+N more..." has N strictly smaller than its day's event count.
C20_FirstEventIsFullRow ==
  /\ \A i \in 1..Len(painted) :
       (painted[i].kind = "label" /\ Len(EventsOf(painted[i])) > 0) =>
         /\ i = Len(painted) => pc = "event"
         /\ i < Len(painted) =>
              /\ painted[i + 1].kind = "event"
              /\ painted[i + 1].day = painted[i].day
              /\ painted[i + 1].event = 0
              /\ painted[i + 1].text = Truncate(EventsOf(painted[i])[1].title, maxTitleWidth)
  /\ \A i \in 1..Len(painted) :
       painted[i].kind = "marker" =>
         \E n \in 1..(Len(EventsOf(painted[i])) - 1) : painted[i].text = MoreStr(n)

\* A second day's label, its first event painted as a row, and then the
\* marker for the rest of that day.
C20_Witness ==
  /\ pc = "done"
  /\ \E i \in 1..Len(painted) :
       /\ painted[i].kind = "label" /\ painted[i].day = 1
       /\ i + 2 <= Len(painted)
       /\ painted[i + 1].kind = "event" /\ painted[i + 1].event = 0
       /\ painted[i + 2].kind = "marker"

\* The stores of the time text of a painted event row:
\* drawText(pixels, width, MARGIN, eventY, event.time, eventColor, 2).
TimeTargets(u) == drawText(width, MARGIN, u.y, EventsOf(u)[u.event + 1].time, 2)

\* C21: every pixel of the time text of a painted event, "HH:MM" or
\* "All Day", has a column left of MARGIN + timeColumnWidth, where the title
\* starts.
C21_TimeInsideColumn ==
  \A i \in 1..Len(painted) :
    painted[i].kind = "event" =>
      \A t \in TimeTargets(painted[i]) : t[1] < MARGIN + timeColumnWidth

\* C22: the day list fetchCalendarEvents returns on success is sorted by
\* date, its first element is labelled TODAY and no other element is; when
\* no item starts today that element has no events.
C22_OneLeadingToday ==
  (calTask.pc \in {"returned", "delivered"} /\ calTask.outcome = "ok") =>
    LET d == calTask.value
    IN /\ \A i \in 1..(Len(d) - 1) : getTime(d[i].date) <= getTime(d[i + 1].date)
       /\ Len(d) >= 1 /\ d[1].label = TODAY
       /\ Cardinality({ i \in 1..Len(d) : d[i].label = TODAY }) = 1
       /\ (\A i \in 1..Len(d) : Len(d[i].events) > 0 => d[i].date.day # Now.day)
            => d[1].events = << >>

====
